---------------------------- MODULE Spec2Model ----------------------------
(***************************************************************************)
(* A model of the statistical analysis and insight pipeline of             *)
(* metrics_copilot: the experiment engine (analysis_experiments.py), the   *)
(* trend and change-point engines (analysis_trends.py), the segment        *)
(* decomposition (decomposition.py) and the rule engine (insights.py).     *)
(*                                                                         *)
(* Numbers.  The program computes in IEEE doubles.  The model computes in  *)
(* exact rationals extended with nan, +inf and -inf, which is what numpy   *)
(* produces on a zero denominator; a standard deviation is carried by its  *)
(* square (the variance), so every comparison the code makes on a standard *)
(* deviation is made here on the squares, exactly.                         *)
(***************************************************************************)
EXTENDS Integers, Sequences, FiniteSets, TLC

VARIABLES
    call        \* the last call of an engine function: [op, its arguments, what it returned]

vars == <<call>>

-----------------------------------------------------------------------------
(* Generic helpers *)

Abs(x) == IF x < 0 THEN -x ELSE x

RECURSIVE GCD(_, _)
GCD(a, b) == IF b = 0 THEN a ELSE GCD(b, a % b)

RECURSIVE SumSeq(_)
SumSeq(s) == IF s = <<>> THEN 0 ELSE Head(s) + SumSeq(Tail(s))

RECURSIVE SumSqSeq(_)
SumSqSeq(s) == IF s = <<>> THEN 0 ELSE Head(s) * Head(s) + SumSqSeq(Tail(s))

RECURSIVE SelectSeqIdx(_, _, _)
\* the indices i of s, ascending, with Test(s[i]); p is the next index to look at
SelectSeqIdx(s, Test(_), p) ==
    IF p > Len(s) THEN <<>>
    ELSE IF Test(s[p]) THEN <<p>> \o SelectSeqIdx(s, Test, p + 1)
    ELSE SelectSeqIdx(s, Test, p + 1)

Prefix(s, k) == SubSeq(s, 1, IF Len(s) < k THEN Len(s) ELSE k)

-----------------------------------------------------------------------------
(* Floating-point values: a rational n/d (d > 0, lowest terms), nan, +inf or -inf *)

Num(n, d) ==
    LET g == GCD(Abs(n), Abs(d))
        s == IF d < 0 THEN -1 ELSE 1
    IN [k |-> "num", n |-> s * (n \div g), d |-> s * (d \div g)]

Int2F(i) == [k |-> "num", n |-> i, d |-> 1]
NaN == [k |-> "nan", n |-> 0, d |-> 1]
PInf == [k |-> "inf", n |-> 1, d |-> 1]
NInf == [k |-> "inf", n |-> -1, d |-> 1]

IsNum(a) == a.k = "num"
IsNaN(a) == a.k = "nan"
IsInf(a) == a.k = "inf"
Sign(a) == IF a.n > 0 THEN 1 ELSE IF a.n < 0 THEN -1 ELSE 0

\* a < b as IEEE compares: false as soon as one side is nan
FLt(a, b) ==
    IF IsNaN(a) \/ IsNaN(b) THEN FALSE
    ELSE IF IsInf(a) /\ IsInf(b) THEN a.n < b.n
    ELSE IF IsInf(a) THEN a.n < 0
    ELSE IF IsInf(b) THEN b.n > 0
    ELSE LET g == GCD(a.d, b.d) IN a.n * (b.d \div g) < b.n * (a.d \div g)
FGt(a, b) == FLt(b, a)
FEq(a, b) == ~IsNaN(a) /\ ~IsNaN(b) /\ ~FLt(a, b) /\ ~FLt(b, a)
FNe(a, b) == ~FEq(a, b)
FLe(a, b) == FLt(a, b) \/ FEq(a, b)
FGe(a, b) == FLe(b, a)

FNeg(a) == IF IsNaN(a) THEN NaN ELSE [a EXCEPT !.n = -a.n]
FAbs(a) == IF IsNaN(a) THEN NaN ELSE [a EXCEPT !.n = Abs(a.n)]

FAdd(a, b) ==
    IF IsNaN(a) \/ IsNaN(b) THEN NaN
    ELSE IF IsInf(a) /\ IsInf(b) THEN (IF a.n = b.n THEN a ELSE NaN)
    ELSE IF IsInf(a) THEN a
    ELSE IF IsInf(b) THEN b
    ELSE LET g == GCD(a.d, b.d)
         IN Num(a.n * (b.d \div g) + b.n * (a.d \div g), (a.d \div g) * b.d)
FSub(a, b) == FAdd(a, FNeg(b))

FMul(a, b) ==
    IF IsNaN(a) \/ IsNaN(b) THEN NaN
    ELSE IF IsInf(a) \/ IsInf(b)
         THEN (IF Sign(a) * Sign(b) > 0 THEN PInf
               ELSE IF Sign(a) * Sign(b) < 0 THEN NInf ELSE NaN)
    ELSE LET g1 == GCD(Abs(a.n), b.d)
             g2 == GCD(Abs(b.n), a.d)
         IN Num((a.n \div g1) * (b.n \div g2), (a.d \div g2) * (b.d \div g1))

\* a / b on numpy float64 scalars: a zero divisor gives inf or nan, never an exception
FDiv(a, b) ==
    IF IsNaN(a) \/ IsNaN(b) THEN NaN
    ELSE IF IsInf(a) /\ IsInf(b) THEN NaN
    ELSE IF IsInf(a) THEN (IF Sign(a) * (IF Sign(b) < 0 THEN -1 ELSE 1) > 0 THEN PInf ELSE NInf)
    ELSE IF IsInf(b) THEN Int2F(0)
    ELSE IF b.n = 0
         THEN (IF a.n > 0 THEN PInf ELSE IF a.n < 0 THEN NInf ELSE NaN)
    ELSE LET g1 == GCD(Abs(a.n), Abs(b.n))
             g2 == GCD(a.d, b.d)
         IN Num((a.n \div g1) * (b.d \div g2), (a.d \div g2) * (b.n \div g1))

\* the integer nearest to n/d * scale, ties to even, for n >= 0
RoundHalfEvenNat(n, d, scale) ==
    LET whole == n \div d
        x == (n - whole * d) * scale
        q == x \div d
        r == x - q * d
        f == IF 2 * r < d THEN q
             ELSE IF 2 * r > d THEN q + 1
             ELSE IF q % 2 = 0 THEN q ELSE q + 1
    IN whole * scale + f

\* the integer nearest to x * scale, ties to even (Python round(x, digits), scale =
\* 10^digits); rounding to even is symmetric about zero
RoundHalfEven(n, d, scale) ==
    IF n < 0 THEN 0 - RoundHalfEvenNat(0 - n, d, scale) ELSE RoundHalfEvenNat(n, d, scale)

\* round(a, digits) with scale = 10^digits; whole numbers, nan and inf round to
\* themselves
FRound(a, scale) ==
    IF IsNum(a) /\ a.d # 1 THEN Num(RoundHalfEven(a.n, a.d, scale), scale) ELSE a

\* Python max(a, b) / min(a, b): the first argument unless the second compares beyond it
PyMax(a, b) == IF FGt(b, a) THEN b ELSE a
PyMin(a, b) == IF FLt(b, a) THEN b ELSE a

Zero == Int2F(0)
IsZero(a) == FEq(a, Zero)

-----------------------------------------------------------------------------
(* ExperimentEngine: control identification (analysis_experiments.py) *)

\* variant labels, as the sequences of their characters
LblControl == <<"c", "o", "n", "t", "r", "o", "l">>
LblControlCap == <<"C", "o", "n", "t", "r", "o", "l">>
LblBaseline == <<"b", "a", "s", "e", "l", "i", "n", "e">>
LblOriginal == <<"o", "r", "i", "g", "i", "n", "a", "l">>
LblA == <<"A">>
LblB == <<"B">>
LblTest == <<"t", "e", "s", "t">>
LblTreatment == <<"t", "r", "e", "a", "t", "m", "e", "n", "t">>
LblVariantB == <<"v", "a", "r", "i", "a", "n", "t", "_", "b">>
LblV1 == <<"v", "1">>
LblV2 == <<"v", "2">>

\* str.lower() on the characters the labels use
LowerChar(c) ==
    CASE c = "A" -> "a"
      [] c = "B" -> "b"
      [] c = "C" -> "c"
      [] c = "E" -> "e"
      [] c = "V" -> "v"
      [] OTHER -> c
LowerStr(s) == [i \in 1..Len(s) |-> LowerChar(s[i])]

\* Python `kw in s` on strings: kw is a contiguous substring of s
Contains(kw, s) ==
    \E i \in 1..(Len(s) - Len(kw) + 1) : SubSeq(s, i, i + Len(kw) - 1) = kw

control_keywords == <<LblControl, LblBaseline, LblOriginal, <<"a">> >>

MatchesAnyKeyword(v) ==
    \E j \in 1..Len(control_keywords) : Contains(control_keywords[j], LowerStr(v))

\* a plausible slip: the control keyword alone is looked for
identify_control_variant_onlycontrol(variants) ==
    LET hits == SelectSeqIdx(variants, LAMBDA v : Contains(LblControl, LowerStr(v)), 1)
    IN IF hits # <<>> THEN variants[hits[1]] ELSE variants[1]

identify_control_variant(variants) ==
    LET hits == SelectSeqIdx(variants, MatchesAnyKeyword, 1)
    IN IF hits # <<>> THEN variants[hits[1]] ELSE variants[1]

-----------------------------------------------------------------------------
(* ExperimentEngine: data-quality warnings *)

min_sample_size == 100

MaxI(a, b) == IF a > b THEN a ELSE b
MinI(a, b) == IF a < b THEN a ELSE b

\* std / mean > 1 on numpy scalars, std given by its square std2:
\* a zero mean gives inf (std > 0) or nan (std = 0); a negative mean a ratio <= 0
RelStdAboveOne(std2, mean) ==
    IF IsNaN(std2) \/ IsNaN(mean) THEN FALSE
    ELSE IF IsZero(mean) THEN FGt(std2, Zero)
    ELSE IF FLt(mean, Zero) THEN FALSE
    ELSE FGt(std2, FMul(mean, mean))

\* max(s1, s2) / min(s1, s2) > 2 on numpy scalars, both given by their squares
StdRatioAboveTwo(c2, t2) ==
    LET hi == PyMax(c2, t2)
        lo == PyMin(c2, t2)
    IN IF IsNaN(hi) \/ IsNaN(lo) THEN FALSE
       ELSE IF IsZero(lo) THEN FGt(hi, Zero)
       ELSE FGt(hi, FMul(Int2F(4), lo))

\* a plausible slip: the threshold is inclusive
SampleRatioMismatch_inclusive(control_count, test_count) ==
    FGe(Num(MaxI(control_count, test_count), MinI(control_count, test_count)), Int2F(2))

SampleRatioMismatch(control_count, test_count) ==
    FGt(Num(MaxI(control_count, test_count), MinI(control_count, test_count)), Int2F(2))

\* np = TRUE: the means and stdevs are numpy float64 (as analyze_experiment passes
\* them), a zero divisor yields inf/nan.  np = FALSE: they are Python floats and a
\* zero divisor raises ZeroDivisionError.  The counts are Python ints either way.
generate_experiment_warnings(control_count, test_count, control_std2, test_std2, control_mean, test_mean, np) ==
    LET w1 == IF control_count < min_sample_size \/ test_count < min_sample_size
              THEN <<"small_sample">> ELSE <<>>
        ratioRaises == MinI(control_count, test_count) = 0
        w2 == IF SampleRatioMismatch(control_count, test_count)
              THEN <<"unbalanced">> ELSE <<>>
        cHigh == RelStdAboveOne(control_std2, control_mean)
        \* `or` short-circuits: the test arm's ratio is computed only if the control's is not > 1
        hvRaises == ~np /\ (IsZero(control_mean) \/ (~cHigh /\ IsZero(test_mean)))
        w3 == IF cHigh \/ RelStdAboveOne(test_std2, test_mean)
              THEN <<"high_variance">> ELSE <<>>
        vdRaises == ~np /\ IsZero(PyMin(control_std2, test_std2))
        w4 == IF StdRatioAboveTwo(control_std2, test_std2)
              THEN <<"variance_difference">> ELSE <<>>
    IN IF ratioRaises \/ hvRaises \/ vdRaises
       THEN [raised |-> TRUE, warnings |-> <<>>]
       ELSE [raised |-> FALSE, warnings |-> w1 \o w2 \o w3 \o w4]

-----------------------------------------------------------------------------
(* ExperimentEngine: analyze_experiment *)

\* a bound of a bootstrap interval that round(., 2) takes to zero, in percent
NearZero == Num(4, 1000)

\* One arm's non-null KPI observations: a bag, value |-> number of rows with it
RECURSIVE BagFold(_, _, _)
BagFold(b, Term(_, _), todo) ==
    IF todo = {} THEN 0
    ELSE LET v == CHOOSE x \in todo : TRUE
         IN Term(v, b[v]) + BagFold(b, Term, todo \ {v})

BagCount(b) == BagFold(b, LAMBDA v, m : m, DOMAIN b)
BagTotal(b) == BagFold(b, LAMBDA v, m : v * m, DOMAIN b)
BagTotalSq(b) == BagFold(b, LAMBDA v, m : v * v * m, DOMAIN b)

\* pandas Series.mean()
BagMean(b) == Num(BagTotal(b), BagCount(b))
\* the square of pandas Series.std() (ddof = 1): nan for a single observation
BagStd2(b) ==
    LET n == BagCount(b)
    IN IF n < 2 THEN NaN
       ELSE Num(n * BagTotalSq(b) - BagTotal(b) * BagTotal(b), n * (n - 1))
BagAllZero(b) == \A v \in DOMAIN b : b[v] > 0 => v = 0

\* uplift_pct, line 58
UpliftPct_unguarded(uplift_abs, control_mean) ==
    FMul(FDiv(uplift_abs, control_mean), Int2F(100))

UpliftPct(uplift_abs, control_mean) ==
    IF FNe(control_mean, Zero)
    THEN FMul(FDiv(uplift_abs, control_mean), Int2F(100))
    ELSE Zero

\* significant, line 67, on the unrounded p-value and interval
Significant_ponly(p_value, alpha, ci_lower, ci_upper) == FLt(p_value, alpha)

Significant(p_value, alpha, ci_lower, ci_upper) ==
    FLt(p_value, alpha) /\ FGt(FMul(ci_lower, ci_upper), Zero)

\* The model does not compute the t distribution, nor does it resample: the
\* statistics libraries may return any of a few values consistent with the arms.
\* The p-values of scipy's Welch test: nan when an arm has one observation or both
\* arms are constant and equal, 0 when both are constant and differ, 1 when the
\* arm means are equal, otherwise a number of pgrid
TTestOutcomes(control, test, pgrid) ==
    LET c2 == BagStd2(control)
        t2 == BagStd2(test)
    IN IF IsNaN(c2) \/ IsNaN(t2) THEN {NaN}
       ELSE IF IsZero(c2) /\ IsZero(t2)
            THEN (IF FEq(BagMean(control), BagMean(test)) THEN {NaN} ELSE {Zero})
       ELSE IF FEq(BagMean(control), BagMean(test)) THEN {Int2F(1)}
       ELSE pgrid

\* What bootstrap_ci can return.  With an all-zero control arm every draw is
\* discarded and np.percentile is applied to an empty list, which raises or
\* returns nan depending on the numpy build.  Otherwise a percentile interval
\* around the observed uplift u (in percent): one that keeps clear of zero and,
\* when both arms vary, one that crosses zero and one whose bound nearest to zero
\* is within 0.005 of it; an interval around zero when u or the control mean is 0
BootstrapOutcomes(control, test) ==
    LET cm == BagMean(control)
        u == FMul(FDiv(FSub(BagMean(test), cm), cm), Int2F(100))
        half == Num(1, 2)
        Pair(lo, hi) == [raised |-> FALSE, lower |-> lo, upper |-> hi]
        vary == FGt(BagStd2(control), Zero) /\ FGt(BagStd2(test), Zero)
    IN IF BagAllZero(control)
       THEN {[raised |-> TRUE, lower |-> NaN, upper |-> NaN],
             [raised |-> FALSE, lower |-> NaN, upper |-> NaN]}
       ELSE IF IsZero(cm) \/ IsZero(u) THEN {Pair(Int2F(-3), Int2F(4))}
       ELSE IF FGt(u, Zero)
            THEN {Pair(FMul(u, half), FMul(u, Int2F(2)))}
                 \cup (IF vary THEN {Pair(FNeg(FMul(u, half)), FMul(u, Int2F(2))),
                                     Pair(NearZero, FMul(u, Int2F(2)))}
                       ELSE {})
       ELSE {Pair(FMul(u, Int2F(2)), FMul(u, half))}
            \cup (IF vary THEN {Pair(FMul(u, Int2F(2)), FNeg(FMul(u, half))),
                                Pair(FMul(u, Int2F(2)), FNeg(NearZero))}
                  ELSE {})

\* the body of the loop over test variants, lines 43-91, for one KPI;
\* stat = [p |-> the t-test's p-value, ci |-> bootstrap_ci's outcome]
ExperimentResultOf(kpi, control_data, test_data, alpha, stat) ==
    LET control_mean == BagMean(control_data)
        test_mean == BagMean(test_data)
        control_std2 == BagStd2(control_data)
        test_std2 == BagStd2(test_data)
        control_count == BagCount(control_data)
        test_count == BagCount(test_data)
        uplift_abs == FSub(test_mean, control_mean)
        uplift_pct == UpliftPct(uplift_abs, control_mean)
        w == generate_experiment_warnings(control_count, test_count, control_std2,
                                          test_std2, control_mean, test_mean, TRUE)
    IN [kpi |-> kpi,
        control_mean |-> FRound(control_mean, 1000000),
        test_mean |-> FRound(test_mean, 1000000),
        control_std2 |-> control_std2,
        test_std2 |-> test_std2,
        control_count |-> control_count,
        test_count |-> test_count,
        uplift_abs |-> FRound(uplift_abs, 1000000),
        uplift_pct |-> FRound(uplift_pct, 100),
        ci_lower |-> FRound(stat.ci.lower, 100),
        ci_upper |-> FRound(stat.ci.upper, 100),
        p_value |-> FRound(stat.p, 10000),
        significant |-> Significant(stat.p, alpha, stat.ci.lower, stat.ci.upper),
        warnings |-> w.warnings]

\* analyze_experiment(df, experiment_col, kpi_columns, alpha).
\* variants: df[experiment_col].unique() without nulls, in first-appearance order;
\* data[kpi][v]: the bag of non-null values of column kpi in the rows of variant v
\* (kpi ranges over the columns df has); stats[kpi][v]: what the statistics
\* libraries return for (kpi, v).
RECURSIVE AnalyzeKpiVariants(_, _, _, _, _, _)
AnalyzeKpiVariants(kpi, control_variant, test_variants, data, alpha, stats) ==
    IF test_variants = <<>> THEN [raised |-> FALSE, results |-> <<>>]
    ELSE LET tv == Head(test_variants)
             control_data == data[kpi][control_variant]
             test_data == data[kpi][tv]
             rest == AnalyzeKpiVariants(kpi, control_variant, Tail(test_variants),
                                        data, alpha, stats)
         IN IF BagCount(control_data) = 0 \/ BagCount(test_data) = 0
            THEN rest
            ELSE IF stats[kpi][tv].ci.raised
            THEN [raised |-> TRUE, results |-> <<>>]
            ELSE IF rest.raised THEN rest
            ELSE [raised |-> FALSE,
                  results |-> <<ExperimentResultOf(kpi, control_data, test_data, alpha,
                                                    stats[kpi][tv])>> \o rest.results]

RECURSIVE AnalyzeKpis(_, _, _, _, _, _)
AnalyzeKpis(kpi_columns, control_variant, test_variants, data, alpha, stats) ==
    IF kpi_columns = <<>> THEN [raised |-> FALSE, results |-> <<>>]
    ELSE LET kpi == Head(kpi_columns)
             rest == AnalyzeKpis(Tail(kpi_columns), control_variant, test_variants,
                                 data, alpha, stats)
         IN IF kpi \notin DOMAIN data THEN rest
            ELSE LET here == AnalyzeKpiVariants(kpi, control_variant, test_variants,
                                                data, alpha, stats)
                 IN IF here.raised THEN here
                    ELSE IF rest.raised THEN rest
                    ELSE [raised |-> FALSE, results |-> here.results \o rest.results]

analyze_experiment(variants, data, kpi_columns, alpha, stats) ==
    IF Len(variants) < 2 THEN [raised |-> FALSE, results |-> <<>>]
    ELSE LET control_variant == identify_control_variant(variants)
             test_variants == SelectSeq(variants, LAMBDA v : v # control_variant)
         IN AnalyzeKpis(kpi_columns, control_variant, test_variants, data, alpha, stats)

-----------------------------------------------------------------------------
(* ExperimentEngine: the inputs the model draws from *)

Range(s) == {s[i] : i \in DOMAIN s}

\* the longest list of variant labels identify_control_variant is called on
MaxVariants == 3

IcvLabels == {LblControl, LblControlCap, LblBaseline, LblOriginal, LblA, LblB,
              LblTest, LblTreatment, LblVariantB, LblV1, LblV2}

\* lists of distinct labels (unique() returns each label once)
IcvVariantLists ==
    UNION {{s \in [1..n -> IcvLabels] : \A i, j \in 1..n : i # j => s[i] # s[j]}
           : n \in 1..MaxVariants}

\* arms of the experiment dataset: value :> number of rows
ArmEmpty == [v \in {} |-> 0]
ArmSingle == (5 :> 1)
ArmZero100 == (0 :> 100)
ArmSym200 == (-1 :> 100) @@ (1 :> 100)
ArmMix100 == (1 :> 50) @@ (3 :> 50)
ArmMix300 == (1 :> 150) @@ (3 :> 150)
ArmWide1000 == (0 :> 900) @@ (10 :> 100)
ArmData == {ArmEmpty, ArmSingle, ArmZero100, ArmSym200, ArmMix100, ArmMix300, ArmWide1000}

\* the experiment datasets: the variant labels in first-appearance order and each
\* variant's arm (one, two or three variants; the control is not always first)
ArmData3 == {ArmSym200, ArmMix100, ArmWide1000}
ExpDatasets ==
    UNION {{[variants |-> vs, arms |-> a] : a \in [Range(vs) -> ArmData]} :
              vs \in {<<LblControl>>, <<LblControl, LblTest>>, <<LblV1, LblV2>>}}
    \cup {[variants |-> <<LblTest, LblControl, LblV2>>, arms |-> a] :
             a \in [{LblTest, LblControl, LblV2} -> ArmData3]}
ExpKpiLists == {<<"kpi">>, <<"missing", "kpi">>}
Alphas == {Num(5, 100), Num(1, 100)}
\* p-values of the t-test
PGrid == {Num(1, 100), Num(4996, 100000), Num(3, 10)}

\* the outcomes of the statistics libraries for the pairs (control, test variant);
\* NoStat where the libraries are not called (an arm without observations)
NoStat == [p |-> NaN, ci |-> [raised |-> FALSE, lower |-> NaN, upper |-> NaN]]
StatChoices(control_data, test_data) ==
    IF BagCount(control_data) = 0 \/ BagCount(test_data) = 0
    THEN {NoStat}
    ELSE {[p |-> p, ci |-> ci] : p \in TTestOutcomes(control_data, test_data, PGrid),
                                 ci \in BootstrapOutcomes(control_data, test_data)}

\* direct calls of generate_experiment_warnings
WarnCounts == {0, 50, 100, 200, 201, 1000}
WarnStd2s == {NaN, Zero, Int2F(1), Int2F(5)}
WarnMeans == {Int2F(-1), Zero, Int2F(2)}

-----------------------------------------------------------------------------
(* ExperimentEngine: actions *)

NoCall == [op |-> "none"]

\* Every engine function is pure: a behaviour of the model is one call of one of
\* them, made when nothing has been called yet.
IdentifyControlVariant ==
    /\ call = NoCall
    /\ \E variants \in IcvVariantLists :
          call' = [op |-> "identify_control_variant", variants |-> variants,
                   ret |-> identify_control_variant(variants)]

GenerateExperimentWarnings ==
    /\ call = NoCall
    /\ \E cc \in WarnCounts, tc \in WarnCounts, cs \in WarnStd2s, ts \in WarnStd2s,
          cm \in WarnMeans, tm \in WarnMeans, np \in BOOLEAN :
          LET r == generate_experiment_warnings(cc, tc, cs, ts, cm, tm, np)
          IN call' = [op |-> "generate_experiment_warnings",
                      control_count |-> cc, test_count |-> tc,
                      control_std2 |-> cs, test_std2 |-> ts,
                      control_mean |-> cm, test_mean |-> tm, np |-> np,
                      raised |-> r.raised, warnings |-> r.warnings]

AnalyzeExperiment ==
    /\ call = NoCall
    /\ \E ds \in ExpDatasets, kpi_columns \in ExpKpiLists, alpha \in Alphas :
          LET variants == ds.variants
              arms == ds.arms
              cv == identify_control_variant(variants)
              tvs == SelectSeq(variants, LAMBDA v : v # cv)
              Choices(i) == IF i <= Len(tvs) THEN StatChoices(arms[cv], arms[tvs[i]])
                            ELSE {NoStat}
          IN \E s1 \in Choices(1), s2 \in Choices(2) :
                LET st == [v \in Range(tvs) |-> IF v = tvs[1] THEN s1 ELSE s2]
                    r == analyze_experiment(variants, ("kpi" :> arms), kpi_columns, alpha,
                                            ("kpi" :> st))
                IN call' = [op |-> "analyze_experiment", variants |-> variants,
                            arms |-> arms, kpi_columns |-> kpi_columns,
                            alpha |-> alpha, stats |-> st,
                            raised |-> r.raised, results |-> r.results]

Init == call = NoCall

NextExperiment == IdentifyControlVariant \/ GenerateExperimentWarnings \/ AnalyzeExperiment

SpecExperiment == Init /\ [][NextExperiment]_vars

-----------------------------------------------------------------------------
(* Series helpers (analysis_trends.py).  A series is a sequence of numbers;   *)
(* Python positions are 0-based, so s[a:b] is Slice0(s, a, b).                *)

RECURSIVE FSum(_)
FSum(s) == IF s = <<>> THEN Zero ELSE FAdd(Head(s), FSum(Tail(s)))

RECURSIVE FSumSq(_)
FSumSq(s) == IF s = <<>> THEN Zero ELSE FAdd(FMul(Head(s), Head(s)), FSumSq(Tail(s)))

\* Python s[a:b] for 0 <= a, b clipped to the length
Slice0(s, a, b) == SubSeq(s, a + 1, MinI(b, Len(s)))

\* Series.mean() / np.mean: nan on an empty series
SeqMean(s) == FDiv(FSum(s), Int2F(Len(s)))

\* sum of squared deviations from the mean, times the length: n * sum(x^2) - sum(x)^2
SeqDev(s) == FSub(FMul(Int2F(Len(s)), FSumSq(s)), FMul(FSum(s), FSum(s)))

\* the square of np.std (ddof = 0)
PopVar(s) == FDiv(SeqDev(s), Int2F(Len(s) * Len(s)))

\* the square of pandas Series.std() (ddof = 1): nan under two observations
SampVar(s) == IF Len(s) < 2 THEN NaN ELSE FDiv(SeqDev(s), Int2F(Len(s) * (Len(s) - 1)))

\* A stable sort: x goes before the first element that Before(<<x, e>>) puts it
\* strictly ahead of, so elements that Before does not separate keep their order
RECURSIVE InsertStable(_, _, _)
InsertStable(x, Before(_), sorted) ==
    IF sorted = <<>> THEN <<x>>
    ELSE IF Before(<<x, sorted[Len(sorted)]>>)
         THEN InsertStable(x, Before, SubSeq(sorted, 1, Len(sorted) - 1))
              \o <<sorted[Len(sorted)]>>
    ELSE sorted \o <<x>>

RECURSIVE StableSortFrom(_, _, _)
StableSortFrom(s, Before(_), acc) ==
    IF s = <<>> THEN acc
    ELSE StableSortFrom(Tail(s), Before, InsertStable(Head(s), Before, acc))

StableSort(s, Before(_)) == StableSortFrom(s, Before, <<>>)

\* df.sort_values(date_col).groupby(date_col)[kpi].mean().dropna(): one value per
\* date that has a non-null value, dates ascending.  rows: sequence of [date, val]
RowsOn(rows, d) == SelectSeq(rows, LAMBDA r : r.date = d /\ ~IsNaN(r.val))

\* the values of the dates first..last, ascending (the range is halved, not walked)
RECURSIVE DailyFrom(_, _, _)
DailyFrom(rows, first, last) ==
    IF first > last THEN <<>>
    ELSE IF first = last
         THEN LET on == RowsOn(rows, first)
              IN IF on = <<>> THEN <<>>
                 ELSE <<[date |-> first, val |-> SeqMean([i \in 1..Len(on) |-> on[i].val])]>>
    ELSE LET mid == (first + last) \div 2
         IN DailyFrom(rows, first, mid) \o DailyFrom(rows, mid + 1, last)

DailyData(rows) ==
    IF rows = <<>> THEN <<>>
    ELSE LET ds == {rows[i].date : i \in 1..Len(rows)}
             lo == CHOOSE d \in ds : \A e \in ds : d <= e
             hi == CHOOSE d \in ds : \A e \in ds : d >= e
         IN DailyFrom(rows, lo, hi)

Vals(daily) == [i \in 1..Len(daily) |-> daily[i].val]

-----------------------------------------------------------------------------
(* TrendEngine *)

\* series.pct_change().dropna(): (x[i] - x[i-1]) / x[i-1], nan entries dropped
PctChange(series) ==
    LET all == [i \in 1..(Len(series) - 1) |->
                   FDiv(FSub(series[i + 1], series[i]), series[i])]
    IN SelectSeq(all, LAMBDA r : ~IsNaN(r))

\* the square of returns.std(): nan as soon as one return is infinite
ReturnsVar(returns) ==
    IF \E i \in 1..Len(returns) : IsInf(returns[i]) THEN NaN ELSE SampVar(returns)

\* volatility > 20, where volatility = returns.std() * 100 if len(returns) > 1 else 0
VolatilityAbove20(series) ==
    LET returns == PctChange(series)
    IN Len(returns) > 1 /\ FGt(ReturnsVar(returns), Num(1, 25))

\* a plausible slip: the stability test comes before the volatility test
determine_direction_stablefirst(overall_change, recent_change, series) ==
    IF FLt(FAbs(overall_change), Int2F(5)) /\ FLt(FAbs(recent_change), Int2F(5)) THEN "stable"
    ELSE IF VolatilityAbove20(series) THEN "volatile"
    ELSE IF FGt(recent_change, Int2F(5)) THEN "increasing"
    ELSE IF FLt(recent_change, Int2F(-5)) THEN "decreasing"
    ELSE IF FGt(overall_change, Int2F(5)) THEN "increasing"
    ELSE IF FLt(overall_change, Int2F(-5)) THEN "decreasing"
    ELSE "stable"

\* a plausible slip: the overall change is asked before the recent change
determine_direction_overallfirst(overall_change, recent_change, series) ==
    IF VolatilityAbove20(series) THEN "volatile"
    ELSE IF FLt(FAbs(overall_change), Int2F(5)) /\ FLt(FAbs(recent_change), Int2F(5)) THEN "stable"
    ELSE IF FGt(overall_change, Int2F(5)) THEN "increasing"
    ELSE IF FLt(overall_change, Int2F(-5)) THEN "decreasing"
    ELSE IF FGt(recent_change, Int2F(5)) THEN "increasing"
    ELSE IF FLt(recent_change, Int2F(-5)) THEN "decreasing"
    ELSE "stable"

determine_direction(overall_change, recent_change, series) ==
    IF VolatilityAbove20(series) THEN "volatile"
    ELSE IF FLt(FAbs(overall_change), Int2F(5)) /\ FLt(FAbs(recent_change), Int2F(5)) THEN "stable"
    ELSE IF FGt(recent_change, Int2F(5)) THEN "increasing"
    ELSE IF FLt(recent_change, Int2F(-5)) THEN "decreasing"
    ELSE IF FGt(overall_change, Int2F(5)) THEN "increasing"
    ELSE IF FLt(overall_change, Int2F(-5)) THEN "decreasing"
    ELSE "stable"

\* (new - old) / old * 100 if old != 0 else 0: lines 44, 51 and 193
PctOf_unguarded(new, old) == FMul(FDiv(FSub(new, old), old), Int2F(100))

PctOf(new, old) ==
    IF FNe(old, Zero) THEN FMul(FDiv(FSub(new, old), old), Int2F(100)) ELSE Zero

\* recent_period = max(7, int(len(daily_data) * 0.2))
RecentPeriod(n) == MaxI(7, n \div 5)

\* the body of the loop of analyze_trends for one KPI whose daily series has at
\* least two values; the description is the template generate_trend_description
\* picks, which the direction decides
TrendSummaryOf(kpi, series) ==
    LET n == Len(series)
        first_val == series[1]
        last_val == series[n]
        overall_change_pct == PctOf(last_val, first_val)
        recent_period == RecentPeriod(n)
        recent_val == SeqMean(Slice0(series, n - recent_period, n))
        previous_val == SeqMean(Slice0(series, n - 2 * recent_period, n - recent_period))
        recent_change_pct == IF n >= recent_period * 2
                             THEN PctOf(recent_val, previous_val)
                             ELSE overall_change_pct
        direction == determine_direction(overall_change_pct, recent_change_pct, series)
    IN [kpi |-> kpi,
        direction |-> direction,
        overall_change_pct |-> FRound(overall_change_pct, 100),
        recent_change_pct |-> FRound(recent_change_pct, 100),
        description |-> direction]

\* analyze_trends(df, date_col, kpi_columns); data[kpi]: the rows (date, value) of
\* column kpi, for the columns df has
RECURSIVE analyze_trends(_, _)
analyze_trends(data, kpi_columns) ==
    IF kpi_columns = <<>> THEN <<>>
    ELSE LET kpi == Head(kpi_columns)
             rest == analyze_trends(data, Tail(kpi_columns))
         IN IF kpi \notin DOMAIN data THEN rest
            ELSE LET daily_data == Vals(DailyData(data[kpi]))
                 IN IF Len(daily_data) < 2 THEN rest
                    ELSE <<TrendSummaryOf(kpi, daily_data)>> \o rest

-----------------------------------------------------------------------------
(* ChangePointEngine *)

\* z_score > 2 with z_score = abs(after_mean - before_mean) / before_std, given
\* before_std # 0 by its square
ZScoreAboveThree(before_mean, after_mean, before_std2) ==
    LET d == FSub(after_mean, before_mean)
    IN FGt(FMul(d, d), FMul(Int2F(9), before_std2))

ZScoreAboveTwo(before_mean, after_mean, before_std2) ==
    LET d == FSub(after_mean, before_mean)
    IN FGt(FMul(d, d), FMul(Int2F(4), before_std2))

\* the test of lines 238-252 at position i (0-based)
ShiftDetectedAt(values, min_size, i) ==
    LET before == Slice0(values, i - min_size, i)
        after == Slice0(values, i, i + min_size)
        before_std2 == PopVar(before)
    IN /\ ~IsZero(before_std2)
       /\ ZScoreAboveTwo(SeqMean(before), SeqMean(after), before_std2)

\* the loop of detect_change_points_simple from position i on, change_points so
\* far.  A position changes change_points only if it passes the test and is at
\* least min_size past the last accepted one, so the loop is taken from one such
\* position to the next.
RECURSIVE ScanFrom(_, _, _, _)
ScanFrom(values, min_size, i, change_points) ==
    LET accepting == {j \in i..(Len(values) - min_size - 1) :
                        /\ ShiftDetectedAt(values, min_size, j)
                        /\ \/ change_points = <<>>
                           \/ j - change_points[Len(change_points)] >= min_size}
    IN IF accepting = {} THEN change_points
       ELSE LET j == CHOOSE a \in accepting : \A b \in accepting : a <= b
            IN ScanFrom(values, min_size, j + 1, change_points \o <<j>>)

detect_change_points_simple(values, min_size) ==
    IF Len(values) < min_size * 2 THEN <<>>
    ELSE ScanFrom(values, min_size, min_size, <<>>)

\* a plausible slip: every position that passes the test is kept
IsNewChangePoint_always(change_points, i, min_size) == TRUE

\* not change_points or i - change_points[-1] >= min_size, line 254
IsNewChangePoint(change_points, i, min_size) ==
    change_points = <<>> \/ i - change_points[Len(change_points)] >= min_size

\* one pass of the loop of lines 237-255, at position i
LoopBody(values, min_size, i, change_points) ==
    IF ShiftDetectedAt(values, min_size, i) /\ IsNewChangePoint(change_points, i, min_size)
    THEN Append(change_points, i)
    ELSE change_points

\* cv < limit, where cv = (w.std() / w.mean()) if w.mean() != 0 else 1
CvBelow(w, limit) ==
    LET m == SeqMean(w)
        v == SampVar(w)
    IN IF IsZero(m) THEN FLt(Int2F(1), limit)
       ELSE IF IsNaN(v) THEN FALSE
       ELSE IF FLt(m, Zero) THEN TRUE
       ELSE FLt(v, FMul(FMul(limit, limit), FMul(m, m)))

\* a plausible slip: "high" already above 20 percent
determine_changepoint_confidence_high20(before, after, delta_pct) ==
    IF FGt(FAbs(delta_pct), Int2F(20)) /\ CvBelow(before, Num(2, 10)) /\ CvBelow(after, Num(2, 10))
    THEN "high"
    ELSE IF FGt(FAbs(delta_pct), Int2F(20))
            \/ (CvBelow(before, Num(3, 10)) /\ CvBelow(after, Num(3, 10)))
    THEN "medium"
    ELSE "low"

determine_changepoint_confidence(before, after, delta_pct) ==
    IF FGt(FAbs(delta_pct), Int2F(30)) /\ CvBelow(before, Num(2, 10)) /\ CvBelow(after, Num(2, 10))
    THEN "high"
    ELSE IF FGt(FAbs(delta_pct), Int2F(20))
            \/ (CvBelow(before, Num(3, 10)) /\ CvBelow(after, Num(3, 10)))
    THEN "medium"
    ELSE "low"

\* the windows of lines 184-185 around position cp_idx
BeforeData(values, min_size, cp_idx) == Slice0(values, MaxI(0, cp_idx - min_size), cp_idx)
AfterData(values, min_size, cp_idx) == Slice0(values, cp_idx, MinI(Len(values), cp_idx + min_size))

\* delta_pct of line 193 at position cp_idx
DeltaPctAt(values, min_size, cp_idx) ==
    PctOf(SeqMean(AfterData(values, min_size, cp_idx)),
          SeqMean(BeforeData(values, min_size, cp_idx)))

\* only changes of at least 10 percent are reported (line 196)
ReportableDelta(delta_pct) == ~FLt(FAbs(delta_pct), Int2F(10))

\* the loop over cps, lines 179-212, for the daily series of one KPI
RECURSIVE ChangePointsOf(_, _, _, _)
ChangePointsOf(kpi, daily_data, min_size, cps) ==
    IF cps = <<>> THEN <<>>
    ELSE LET cp_idx == Head(cps)
             values == Vals(daily_data)
             rest == ChangePointsOf(kpi, daily_data, min_size, Tail(cps))
             before_data == BeforeData(values, min_size, cp_idx)
             after_data == AfterData(values, min_size, cp_idx)
             before_mean == SeqMean(before_data)
             after_mean == SeqMean(after_data)
             delta_abs == FSub(after_mean, before_mean)
             delta_pct == PctOf(after_mean, before_mean)
         IN IF cp_idx >= Len(values) \/ cp_idx < min_size THEN rest
            ELSE IF Len(before_data) = 0 \/ Len(after_data) = 0 THEN rest
            ELSE IF ~ReportableDelta(delta_pct) THEN rest
            ELSE <<[date |-> daily_data[cp_idx + 1].date,
                    kpi |-> kpi,
                    before_mean |-> FRound(before_mean, 10000),
                    after_mean |-> FRound(after_mean, 10000),
                    delta_abs |-> FRound(delta_abs, 10000),
                    delta_pct |-> FRound(delta_pct, 100),
                    confidence |-> determine_changepoint_confidence(before_data, after_data,
                                                                    delta_pct)]>>
                 \o rest

RECURSIVE ChangePointsOfKpis(_, _, _)
ChangePointsOfKpis(data, kpi_columns, min_size) ==
    IF kpi_columns = <<>> THEN <<>>
    ELSE LET kpi == Head(kpi_columns)
             rest == ChangePointsOfKpis(data, Tail(kpi_columns), min_size)
         IN IF kpi \notin DOMAIN data THEN rest
            ELSE LET daily_data == DailyData(data[kpi])
                 IN IF Len(daily_data) < min_size * 2 THEN rest
                    ELSE ChangePointsOf(kpi, daily_data, min_size,
                                        detect_change_points_simple(Vals(daily_data), min_size))
                         \o rest

\* the number of change points detect_change_points returns at most (line 217)
TopChangePoints == 10

\* detect_change_points(df, date_col, kpi_columns, min_size)
detect_change_points(data, kpi_columns, min_size) ==
    Prefix(StableSort(ChangePointsOfKpis(data, kpi_columns, min_size),
                      LAMBDA p : FGt(FAbs(p[1].delta_pct), FAbs(p[2].delta_pct))),
           TopChangePoints)

-----------------------------------------------------------------------------
(* TrendEngine and ChangePointEngine: the inputs the model draws from *)

\* one row per day, the date of a row being its position (0-based)
OneRowPerDay(values) == [i \in 1..Len(values) |-> [date |-> i - 1, val |-> values[i]]]

IntSeries(s) == [i \in 1..Len(s) |-> Int2F(s[i])]

\* the longest of the short series determine_direction is called with
MaxSeriesLen == 3

SeqsUpTo(S, n) == UNION {[1..m -> S] : m \in 1..n}

DirSeries ==
    {IntSeries(s) : s \in SeqsUpTo({0, 4, 5, 8}, MaxSeriesLen)}
    \cup {IntSeries(<<25, 30, 30, 24>>), IntSeries(<<10, 11, 10, 11>>),
          IntSeries(<<10, 20, 10, 20>>), IntSeries(<<-10, -20, -10, -20>>)}

DirChanges == {Int2F(-6), Int2F(-5), Int2F(-4), Int2F(0), Int2F(5), Int2F(6)}

\* raw rows of a few days, with repeated dates, nulls and dates out of order
RawRows ==
    {<<>>,
     <<[date |-> 1, val |-> Int2F(10)]>>,
     <<[date |-> 2, val |-> Int2F(12)], [date |-> 1, val |-> Int2F(10)]>>,
     <<[date |-> 1, val |-> Int2F(0)], [date |-> 2, val |-> Int2F(7)]>>,
     <<[date |-> 1, val |-> Int2F(10)], [date |-> 1, val |-> Int2F(-10)],
       [date |-> 3, val |-> Int2F(7)]>>,
     <<[date |-> 1, val |-> Int2F(10)], [date |-> 2, val |-> NaN],
       [date |-> 3, val |-> Int2F(10)], [date |-> 3, val |-> Int2F(30)]>>,
     <<[date |-> 1, val |-> NaN], [date |-> 2, val |-> Int2F(5)]>>}

\* a first value, the window before the recent window, the recent window
TrendFirsts == {0, 10, -10}
TrendWindows ==
    {<<0, 0, 0, 0, 0, 0, 0>>, <<-3, 3, 0, 0, 0, 0, 0>>, <<10, 10, 10, 10, 10, 10, 10>>,
     <<20, 21, 20, 21, 20, 21, 20>>, <<10, 30, 10, 30, 10, 30, 10>>}
TrendSeries == {IntSeries(<<f>> \o p \o r) : f \in TrendFirsts, p \in TrendWindows, r \in TrendWindows}
                \cup {IntSeries(p \o r) : p \in TrendWindows, r \in TrendWindows}

TrendRows == RawRows \cup {OneRowPerDay(v) : v \in TrendSeries}

TrendKpiLists == {<<"kpi">>, <<"missing", "kpi">>, <<"kpi", "other">>}

\* a short series: level P with noise +-e, shifted by d from position k on
ShortShift(P, e, d, n, k) ==
    [t \in 1..n |-> Int2F(P + e * (IF t % 2 = 1 THEN -1 ELSE 1) + (IF t - 1 >= k THEN d ELSE 0))]

ShortSeries ==
    {ShortShift(P, e, d, n, k) :
        P \in {0, 100}, e \in {0, 1, 5}, d \in {-40, 0, 3, 15, 40}, n \in {8, 9}, k \in {3, 4, 5}}

\* a 90-day series at level 100 that shifts by pct percent at day 45, with a noise
\* of amplitude a that changes sign every five days and one of amplitude b that
\* changes sign every day
Shift90(a, b, pct) ==
    [t \in 1..90 |-> Int2F((IF t - 1 >= 45 THEN 100 + pct ELSE 100)
                           + a * (IF (t - 1) % 10 < 5 THEN -1 ELSE 1)
                           + b * (IF t % 2 = 1 THEN -1 ELSE 1))]

BlockNoise == {0, 5, 10}
DayNoise == {0, 1, 8, 25, 40}
ShiftPcts == {0, 20, 50}

\* a series that doubles every two days: every other position is a change point
Doubling(c) ==
    IntSeries(<<c, c + 1, 2 * c, 2 * c + 1, 4 * c, 4 * c + 1,
                8 * c, 8 * c + 1, 16 * c, 16 * c + 1, 32 * c, 32 * c + 1>>)

CpDatasets ==
    {[min_size |-> 2, data |-> ("kpi" :> OneRowPerDay(v))] : v \in ShortSeries}
    \cup {[min_size |-> 5, data |-> ("kpi" :> OneRowPerDay(Shift90(a, b, pct)))] :
             a \in BlockNoise, b \in DayNoise, pct \in ShiftPcts}
    \cup {[min_size |-> 2, data |-> ("kpi" :> r)] : r \in RawRows}
    \cup {[min_size |-> 2,
           data |-> ("kpi" :> OneRowPerDay(Doubling(10)))
                    @@ ("other" :> OneRowPerDay(Doubling(c)))
                    @@ ("third" :> OneRowPerDay(ShortShift(100, 1, d, 9, 4)))] :
             c \in {10, 20}, d \in {3, 15, 40}}

CpKpiLists == {<<"kpi">>, <<"missing", "kpi">>, <<"kpi", "other", "third">>, <<"third", "other", "kpi">>}

-----------------------------------------------------------------------------
(* TrendEngine and ChangePointEngine: actions *)

DetermineDirection ==
    /\ call = NoCall
    /\ \E overall_change \in DirChanges, recent_change \in DirChanges, series \in DirSeries :
          call' = [op |-> "determine_direction", overall_change |-> overall_change,
                   recent_change |-> recent_change, series |-> series,
                   ret |-> determine_direction(overall_change, recent_change, series)]

AnalyzeTrends ==
    /\ call = NoCall
    /\ \E rows \in TrendRows, kpi_columns \in TrendKpiLists :
          call' = [op |-> "analyze_trends", data |-> ("kpi" :> rows),
                   kpi_columns |-> kpi_columns,
                   trends |-> analyze_trends(("kpi" :> rows), kpi_columns)]

DetectChangePoints ==
    /\ call = NoCall
    /\ \E ds \in CpDatasets, kpi_columns \in CpKpiLists :
          call' = [op |-> "detect_change_points", data |-> ds.data,
                   kpi_columns |-> kpi_columns, min_size |-> ds.min_size,
                   change_points |-> detect_change_points(ds.data, kpi_columns, ds.min_size)]

NextTrend == DetermineDirection \/ AnalyzeTrends \/ DetectChangePoints

SpecTrend == Init /\ [][NextTrend]_vars

-----------------------------------------------------------------------------
(* ChangePointEngine: detect_change_points_simple, pass by pass *)

\* the longest series scanned
MaxScanLen == 7

ScanValues == {0, 1, 10}
\* series that rise at every position: two shifts with one in between
RisingSeries ==
    {IntSeries(<<0, 1, 2, 10, 100, 100, 100>>), IntSeries(<<0, 1, 2, 10, 100, 1000, 1000, 1000>>)}

ScanSeries ==
    {IntSeries(s) : s \in UNION {[1..n -> ScanValues] : n \in 3..MaxScanLen}} \cup RisingSeries
ScanMinSizes == {2, 3}

\* the call, up to the loop: a series shorter than two windows returns at once
CallDetectSimple ==
    /\ call = NoCall
    /\ \E values \in ScanSeries, min_size \in ScanMinSizes :
          call' = [op |-> "detect_change_points_simple", values |-> values,
                   min_size |-> min_size, i |-> min_size, change_points |-> <<>>,
                   pc |-> IF Len(values) < min_size * 2 THEN "returned" ELSE "loop"]

InLoop == call.op = "detect_change_points_simple" /\ call.pc = "loop"

\* for i in range(min_size, len(values) - min_size): one pass
LoopStep ==
    /\ InLoop
    /\ call.i < Len(call.values) - call.min_size
    /\ call' = [call EXCEPT !.change_points = LoopBody(call.values, call.min_size, call.i, @),
                            !.i = @ + 1]

\* the range is exhausted: return change_points
LoopEnd ==
    /\ InLoop
    /\ call.i >= Len(call.values) - call.min_size
    /\ call' = [call EXCEPT !.pc = "returned"]

NextScan == CallDetectSimple \/ LoopStep \/ LoopEnd

SpecScan == Init /\ [][NextScan]_vars

-----------------------------------------------------------------------------
(* SegmentDecompositionEngine (decomposition.py).  A dataframe is a sequence   *)
(* of rows, a row a function from column names to values: a number or nan in   *)
(* a KPI column, a label or Null in a segment column, a day number in the      *)
(* date column.                                                                *)

\* a missing value of a segment column (pd.isna)
Null == "<NA>"

Columns(df) == IF df = <<>> THEN {} ELSE DOMAIN df[1]

\* df[col] as a sequence
Column(df, col) == [i \in 1..Len(df) |-> df[i][col]]

\* Series.mean(): nan values are skipped, nan if nothing is left
SkipNaMean(s) == SeqMean(SelectSeq(s, LAMBDA x : ~IsNaN(x)))

\* Series.unique(): the values in the order they first appear
RECURSIVE Unique(_)
Unique(s) ==
    IF s = <<>> THEN <<>>
    ELSE LET init == Unique(SubSeq(s, 1, Len(s) - 1))
             x == s[Len(s)]
         IN IF \E i \in 1..Len(init) : init[i] = x THEN init ELSE init \o <<x>>

\* the rows of df whose segment column holds segment_value
RowsOf(df, segment_col, segment_value) == SelectSeq(df, LAMBDA r : r[segment_col] = segment_value)

\* a plausible slip: contribution_pct without the test on overall_mean
StaticContributionPct_unguarded(contribution_abs, overall_mean) ==
    FMul(FDiv(contribution_abs, overall_mean), Int2F(100))

\* contribution_pct = (contribution_abs / overall_mean * 100) if overall_mean != 0 else 0
StaticContributionPct(contribution_abs, overall_mean) ==
    IF FNe(overall_mean, Zero) THEN FMul(FDiv(contribution_abs, overall_mean), Int2F(100))
    ELSE Zero

\* the non-null KPI values of the rows of segment_value, line 163
SegData(df, segment_col, kpi, segment_value) ==
    SelectSeq(Column(RowsOf(df, segment_col, segment_value), kpi), LAMBDA x : ~IsNaN(x))

\* a plausible slip: the deviation not weighted by the size of the segment
StaticContributionAbs_unweighted(df, segment_col, kpi, segment_value) ==
    FSub(SeqMean(SegData(df, segment_col, kpi, segment_value)), SkipNaMean(Column(df, kpi)))

\* contribution_abs before rounding, lines 168-174: the deviation of the segment's
\* mean from the overall mean, weighted by the segment's share of the rows
StaticContributionAbs(df, segment_col, kpi, segment_value) ==
    LET overall_mean == SkipNaMean(Column(df, kpi))
        seg_data == SegData(df, segment_col, kpi, segment_value)
        seg_mean == SeqMean(seg_data)
        seg_size == Len(seg_data)
        deviation == FSub(seg_mean, overall_mean)
    IN FMul(deviation, Num(seg_size, Len(df)))

\* the body of the loop of calculate_static_contribution for the segment values vs
RECURSIVE StaticDriversOf(_, _, _, _)
StaticDriversOf(df, segment_col, kpi, vs) ==
    IF vs = <<>> THEN <<>>
    ELSE LET segment_value == Head(vs)
             rest == StaticDriversOf(df, segment_col, kpi, Tail(vs))
             overall_mean == SkipNaMean(Column(df, kpi))
             seg_data == SegData(df, segment_col, kpi, segment_value)
             seg_mean == SeqMean(seg_data)
             seg_size == Len(seg_data)
             contribution_abs == StaticContributionAbs(df, segment_col, kpi, segment_value)
             contribution_pct == StaticContributionPct(contribution_abs, overall_mean)
         IN IF segment_value = Null THEN rest
            ELSE IF Len(seg_data) = 0 THEN rest
            ELSE <<[segment_column |-> segment_col,
                    segment_value |-> segment_value,
                    kpi |-> kpi,
                    contribution_abs |-> FRound(contribution_abs, 1000000),
                    contribution_pct |-> FRound(contribution_pct, 100),
                    segment_mean |-> FRound(seg_mean, 1000000),
                    segment_size |-> seg_size]>> \o rest

calculate_static_contribution(df, segment_col, kpi) ==
    StaticDriversOf(df, segment_col, kpi, Unique(Column(df, segment_col)))

\* the values contribution_abs takes in the loop, before rounding, one for each
\* segment value that gets a driver
StaticContributions(df, segment_col, kpi) ==
    LET vs == SelectSeq(Unique(Column(df, segment_col)),
                        LAMBDA v : v # Null /\ Len(SegData(df, segment_col, kpi, v)) > 0)
    IN [i \in 1..Len(vs) |-> StaticContributionAbs(df, segment_col, kpi, vs[i])]

\* the body of the loop of calculate_temporal_contribution for the segment values vs
RECURSIVE TemporalDriversOf(_, _, _, _, _, _)
TemporalDriversOf(df, before_df, after_df, segment_col, kpi, vs) ==
    IF vs = <<>> THEN <<>>
    ELSE LET segment_value == Head(vs)
             rest == TemporalDriversOf(df, before_df, after_df, segment_col, kpi, Tail(vs))
             overall_change == FSub(SkipNaMean(Column(after_df, kpi)),
                                    SkipNaMean(Column(before_df, kpi)))
             seg_before == Column(RowsOf(before_df, segment_col, segment_value), kpi)
             seg_after == Column(RowsOf(after_df, segment_col, segment_value), kpi)
             seg_after_mean == SkipNaMean(seg_after)
             seg_change == FSub(seg_after_mean, SkipNaMean(seg_before))
             size2 == Len(seg_before) + Len(seg_after)
             contribution_abs == FMul(seg_change, Num(size2, 2 * Len(df)))
             contribution_pct == IF FNe(overall_change, Zero)
                                 THEN FMul(FDiv(contribution_abs, FAbs(overall_change)), Int2F(100))
                                 ELSE Zero
         IN IF segment_value = Null THEN rest
            ELSE IF Len(seg_before) = 0 \/ Len(seg_after) = 0 THEN rest
            ELSE <<[segment_column |-> segment_col,
                    segment_value |-> segment_value,
                    kpi |-> kpi,
                    contribution_abs |-> FRound(contribution_abs, 1000000),
                    contribution_pct |-> FRound(contribution_pct, 100),
                    segment_mean |-> FRound(seg_after_mean, 1000000),
                    segment_size |-> size2 \div 2]>> \o rest

\* a plausible slip: the rows are halved as they come, not in date order
calculate_temporal_contribution_unsorted(df, segment_col, kpi, date_col) ==
    LET median_idx == Len(df) \div 2
        before_df == SubSeq(df, 1, median_idx)
        after_df == SubSeq(df, median_idx + 1, Len(df))
        overall_change == FSub(SkipNaMean(Column(after_df, kpi)),
                               SkipNaMean(Column(before_df, kpi)))
    IN IF FEq(overall_change, Zero) \/ IsNaN(overall_change) THEN <<>>
       ELSE TemporalDriversOf(df, before_df, after_df, segment_col, kpi,
                              Unique(Column(df, segment_col)))

\* lines 91-95: before and after are the halves of the rows in date order (rows
\* of one date keep their order), cut at the middle row
TemporalSplit(df, date_col) ==
    LET df_sorted == StableSort(df, LAMBDA p : p[1][date_col] < p[2][date_col])
        median_idx == Len(df_sorted) \div 2
    IN [before_df |-> SubSeq(df_sorted, 1, median_idx),
        after_df |-> SubSeq(df_sorted, median_idx + 1, Len(df_sorted))]

calculate_temporal_contribution(df, segment_col, kpi, date_col) ==
    LET before_df == TemporalSplit(df, date_col).before_df
        after_df == TemporalSplit(df, date_col).after_df
        overall_change == FSub(SkipNaMean(Column(after_df, kpi)),
                               SkipNaMean(Column(before_df, kpi)))
    IN IF FEq(overall_change, Zero) \/ IsNaN(overall_change) THEN <<>>
       ELSE TemporalDriversOf(df, before_df, after_df, segment_col, kpi,
                              Unique(Column(df, segment_col)))

\* date_col is a column name, or None
None == "<None>"

calculate_segment_contribution(df, segment_col, kpi, date_col) ==
    IF date_col # None /\ date_col \in Columns(df)
    THEN calculate_temporal_contribution(df, segment_col, kpi, date_col)
    ELSE calculate_static_contribution(df, segment_col, kpi)

\* the loops of analyze_segment_drivers over kpi_columns and segment_columns
RECURSIVE DriversOfSegments(_, _, _, _)
DriversOfSegments(df, segment_columns, kpi, date_col) ==
    IF segment_columns = <<>> THEN <<>>
    ELSE LET rest == DriversOfSegments(df, Tail(segment_columns), kpi, date_col)
         IN IF Head(segment_columns) \notin Columns(df) THEN rest
            ELSE calculate_segment_contribution(df, Head(segment_columns), kpi, date_col) \o rest

RECURSIVE DriversOfKpis(_, _, _, _)
DriversOfKpis(df, segment_columns, kpi_columns, date_col) ==
    IF kpi_columns = <<>> THEN <<>>
    ELSE LET rest == DriversOfKpis(df, segment_columns, Tail(kpi_columns), date_col)
         IN IF Head(kpi_columns) \notin Columns(df) THEN rest
            ELSE DriversOfSegments(df, segment_columns, Head(kpi_columns), date_col) \o rest

\* the default of top_n, which analyze_csv leaves in place
DefaultTopN == 10

analyze_segment_drivers(df, segment_columns, kpi_columns, date_col, top_n) ==
    Prefix(StableSort(DriversOfKpis(df, segment_columns, kpi_columns, date_col),
                      LAMBDA p : FGt(FAbs(p[1].contribution_abs), FAbs(p[2].contribution_abs))),
           top_n)

-----------------------------------------------------------------------------
(* InsightEngine (insights.py).  A report is a record of the lists the engines  *)
(* produced: change_points, segment_drivers, overall_trends,                    *)
(* experiment_results and anomalies.  A text the code formats from values is    *)
(* the tuple of its fixed part and those values; the evidence, risk and         *)
(* rationale texts, which nothing reads back, are left out.                     *)

confidence_order(c) == IF c = "high" THEN 0 ELSE IF c = "medium" THEN 1 ELSE 2

\* f"{driver.segment_column}={driver.segment_value}"
SegmentName(driver) == <<driver.segment_column, driver.segment_value>>

Map(s, F(_)) == [i \in 1..Len(s) |-> F(s[i])]

\* the body of the loop of generate_changepoint_hypotheses for one change point
ChangepointHypothesis(cp, segment_drivers) ==
    LET related == SelectSeq(segment_drivers,
                             LAMBDA d : d.kpi = cp.kpi
                                        /\ FGt(FAbs(d.contribution_pct), Int2F(20)))
        related_segments == Map(related, SegmentName)
        moved == IF FGt(cp.delta_pct, Zero) THEN "increased" ELSE "decreased"
    IN IF related_segments # <<>>
       THEN [description |-> <<cp.kpi, moved, FAbs(cp.delta_pct), cp.date,
                               "primarily driven by changes in", Prefix(related_segments, 2)>>,
             confidence |-> "high",
             related_kpis |-> <<cp.kpi>>,
             related_segments |-> related_segments]
       ELSE [description |-> <<cp.kpi, moved, FAbs(cp.delta_pct), cp.date,
                               "across all segments", <<>>>>,
             confidence |-> cp.confidence,
             related_kpis |-> <<cp.kpi>>,
             related_segments |-> related_segments]

generate_changepoint_hypotheses(change_points, segment_drivers) ==
    Map(Prefix(change_points, 3), LAMBDA cp : ChangepointHypothesis(cp, segment_drivers))

\* the hypothesis on the first driver of a KPI on one side of zero
DriverHypothesis(kpi, driver, text) ==
    [description |-> <<kpi, text, SegmentName(driver), driver.contribution_pct>>,
     confidence |-> IF FGt(FAbs(driver.contribution_pct), Int2F(30)) THEN "high" ELSE "medium",
     related_kpis |-> <<kpi>>,
     related_segments |-> <<SegmentName(driver)>>]

\* the body of the loop over kpi_groups for one KPI
SegmentHypothesesOf(kpi, segment_drivers) ==
    LET drivers == SelectSeq(segment_drivers, LAMBDA d : d.kpi = kpi)
        positive_drivers == SelectSeq(drivers, LAMBDA d : FGt(d.contribution_pct, Zero))
        negative_drivers == SelectSeq(drivers, LAMBDA d : FLt(d.contribution_pct, Zero))
    IN (IF positive_drivers # <<>>
        THEN <<DriverHypothesis(kpi, positive_drivers[1], "is strongly influenced by")>>
        ELSE <<>>)
       \o (IF negative_drivers # <<>>
           THEN <<DriverHypothesis(kpi, negative_drivers[1], "is dragged down by")>>
           ELSE <<>>)

RECURSIVE SegmentHypothesesOfKpis(_, _)
SegmentHypothesesOfKpis(kpis, segment_drivers) ==
    IF kpis = <<>> THEN <<>>
    ELSE SegmentHypothesesOf(Head(kpis), segment_drivers)
         \o SegmentHypothesesOfKpis(Tail(kpis), segment_drivers)

\* kpi_groups keeps the KPIs in the order their first driver appears
generate_segment_hypotheses(segment_drivers, trends) ==
    Prefix(SegmentHypothesesOfKpis(Unique(Map(segment_drivers, LAMBDA d : d.kpi)),
                                   segment_drivers),
           5)

\* the body of the loop of generate_experiment_hypotheses for one result
ExperimentHypothesis(exp) ==
    LET impact == IF exp.significant
                  THEN (IF FGt(exp.uplift_pct, Zero) THEN "significant positive impact"
                        ELSE "significant negative impact")
                  ELSE "no significant difference"
    IN [description |-> <<exp.kpi, impact, exp.uplift_pct, exp.p_value>>,
        confidence |-> IF exp.significant
                       THEN (IF exp.warnings = <<>> THEN "high" ELSE "medium")
                       ELSE "medium",
        related_kpis |-> <<exp.kpi>>,
        related_segments |-> <<>>]

generate_experiment_hypotheses(experiments) == Map(Prefix(experiments, 3), ExperimentHypothesis)

AnomalyHypothesis(anomaly) ==
    [description |-> <<"Data quality issue detected", anomaly.description>>,
     confidence |-> "high",
     related_kpis |-> IF anomaly.affected_column # None THEN <<anomaly.affected_column>> ELSE <<>>,
     related_segments |-> <<>>]

generate_anomaly_hypotheses(anomalies) ==
    Map(SelectSeq(Prefix(anomalies, 3), LAMBDA a : a.type = "data_quality"), AnomalyHypothesis)

\* the hypotheses of lines 51-63, in the order the generators are called
RuleBasedHypotheses(report) ==
    generate_changepoint_hypotheses(report.change_points, report.segment_drivers)
    \o generate_segment_hypotheses(report.segment_drivers, report.overall_trends)
    \o generate_experiment_hypotheses(report.experiment_results)
    \o generate_anomaly_hypotheses(report.anomalies)

SortByConfidence(items) ==
    StableSort(items, LAMBDA p : confidence_order(p[1].confidence) < confidence_order(p[2].confidence))

\* what the enhancement provider returns when it returns hypotheses
LlmHypotheses ==
    <<[description |-> <<"enhanced", 1>>, confidence |-> "medium",
       related_kpis |-> <<>>, related_segments |-> <<>>],
      [description |-> <<"enhanced", 2>>, confidence |-> "high",
       related_kpis |-> <<>>, related_segments |-> <<>>]>>

\* a plausible slip: the list is cut to ten before it is sorted
generate_hypotheses_cutfirst(report, llm) ==
    IF llm = "enhanced" THEN LlmHypotheses
    ELSE SortByConfidence(Prefix(RuleBasedHypotheses(report), 10))

\* a plausible slip: the rule-based list is cut to ten without being sorted
generate_hypotheses_unsorted(report, llm) ==
    IF llm = "enhanced" THEN LlmHypotheses
    ELSE Prefix(RuleBasedHypotheses(report), 10)

\* generate_hypotheses(report, df, use_llm) when it returns.  llm is how the
\* attempt on the enhancement provider ends (LlmOutcomes); the provider's result
\* is returned when it is a non-empty list ("enhanced"), the rule-based list
\* otherwise
generate_hypotheses(report, llm) ==
    IF llm = "enhanced" THEN LlmHypotheses
    ELSE Prefix(SortByConfidence(RuleBasedHypotheses(report)), 10)

\* a plausible slip: the call on the provider is made outside the try
Propagates_notry(llm) == llm \in {"available_raised", "create_raised", "enhance_raised"}

\* The outcomes after which an exception leaves generate_hypotheses and
\* generate_executive_summary: is_llm_available() is called in the condition of
\* the if (lines 40 and 496), before the try is entered
Propagates(llm) == llm = "available_raised"

\* str.strip() of a text: the blanks at both ends removed
RECURSIVE strip(_)
strip(s) ==
    IF s = <<>> THEN s
    ELSE IF Head(s) = " " THEN strip(Tail(s))
    ELSE IF s[Len(s)] = " " THEN strip(SubSeq(s, 1, Len(s) - 1))
    ELSE s

\* str.split('.'): the pieces between the full stops, empty ones included
RECURSIVE split(_)
split(s) ==
    LET stops == {i \in 1..Len(s) : s[i] = "."}
    IN IF stops = {} THEN <<s>>
       ELSE LET i == CHOOSE k \in stops : \A j \in stops : k <= j
            IN <<SubSeq(s, 1, i - 1)>> \o split(SubSeq(s, i + 1, Len(s)))

\* [s.strip() for s in llm_summary.split('.') if s.strip()]
SummaryBullets(llm_summary) ==
    LET pieces == split(llm_summary)
        stripped == [i \in 1..Len(pieces) |-> strip(pieces[i])]
    IN SelectSeq(stripped, LAMBDA s : s # <<>>)

\* the bullets of the rule-based summary, lines 508-545; a bullet is the tuple of
\* its fixed part and the values formatted into it
RuleBasedSummary(report) ==
    LET primary_kpis == SelectSeq(report.kpis_detected, LAMBDA k : k.is_primary)
        sig_results == SelectSeq(report.experiment_results, LAMBDA e : e.significant)
        high_issues == SelectSeq(report.anomalies, LAMBDA a : a.severity = "high")
        bullets ==
           <<<<"Analyzed", report.data_profile.row_count, report.data_profile.column_count,
               report.data_profile.data_mode>>>>
           \o (IF report.time_range # <<>>
               THEN <<<<"Time range", report.time_range[1].start, report.time_range[1].end>>>>
               ELSE <<>>)
           \o (IF primary_kpis # <<>>
               THEN <<<<"Primary KPIs",
                        [i \in 1..Len(Prefix(primary_kpis, 3)) |-> primary_kpis[i].column_name]>>>>
               ELSE <<>>)
           \o (IF report.change_points # <<>>
               THEN LET cp == report.change_points[1]
                    IN <<<<"Largest change", cp.kpi,
                           IF FGt(cp.delta_pct, Zero) THEN "increased" ELSE "decreased",
                           FAbs(cp.delta_pct), cp.date>>>>
               ELSE <<>>)
           \o (IF report.experiment_results # <<>>
               THEN (IF sig_results # <<>>
                     THEN <<<<"Found significant experiment results", Len(sig_results)>>>>
                     ELSE <<<<"No significant experiment results detected">>>>)
               ELSE <<>>)
           \o (IF high_issues # <<>>
               THEN <<<<"high-severity data quality issues detected", Len(high_issues)>>>>
               ELSE <<>>)
    IN Prefix(bullets, 6)

\* generate_executive_summary(report, use_llm).  llm is how the attempt on the
\* enhancement provider ends, llm_summary the text it returns when it returns one
generate_executive_summary(report, llm, llm_summary) ==
    IF llm = "enhanced" THEN SummaryBullets(llm_summary)
    ELSE RuleBasedSummary(report)

\* the decision on the first experiment result, lines 367-412
ExperimentDecisions(report) ==
    IF report.experiment_results = <<>> THEN <<>>
    ELSE LET primary_exp == report.experiment_results[1]
         IN <<[decision |-> IF primary_exp.significant
                            THEN (IF FGt(primary_exp.uplift_pct, Zero)
                                  THEN <<"Ship the experiment">>
                                  ELSE <<"Don't ship the experiment">>)
                            ELSE <<"Continue running experiment or iterate">>,
               confidence |-> IF primary_exp.significant
                              THEN (IF primary_exp.warnings = <<>> THEN "high" ELSE "medium")
                              ELSE "medium",
               supporting_metrics |-> <<primary_exp.kpi>>]>>

\* the decision on the first declining trend, lines 415-441
TrendDecisions(report) ==
    LET declining_kpis == SelectSeq(report.overall_trends,
                                    LAMBDA t : t.direction = "decreasing"
                                               /\ FLt(t.recent_change_pct, Int2F(-10)))
    IN IF declining_kpis = <<>> THEN <<>>
       ELSE <<[decision |-> <<"Investigate decline in", declining_kpis[1].kpi>>,
               confidence |-> "high",
               supporting_metrics |-> <<declining_kpis[1].kpi>>]>>

\* a plausible slip: the sign of the contribution is lost
SegmentDecisions_unsigned(report) ==
    LET strong_drivers == SelectSeq(report.segment_drivers,
                                    LAMBDA d : FGt(FAbs(d.contribution_pct), Int2F(40)))
    IN IF strong_drivers = <<>> THEN <<>>
       ELSE LET driver == strong_drivers[1]
            IN <<[decision |-> IF FGt(FAbs(driver.contribution_pct), Zero)
                               THEN <<"Focus optimization efforts on", SegmentName(driver)>>
                               ELSE <<"Address performance issues in", SegmentName(driver)>>,
                  confidence |-> "high",
                  supporting_metrics |-> <<driver.kpi>>]>>

\* the decision on the first strong segment driver, lines 444-461
SegmentDecisions(report) ==
    LET strong_drivers == SelectSeq(report.segment_drivers,
                                    LAMBDA d : FGt(FAbs(d.contribution_pct), Int2F(40)))
    IN IF strong_drivers = <<>> THEN <<>>
       ELSE LET driver == strong_drivers[1]
            IN <<[decision |-> IF FGt(driver.contribution_pct, Zero)
                               THEN <<"Focus optimization efforts on", SegmentName(driver)>>
                               ELSE <<"Address performance issues in", SegmentName(driver)>>,
                  confidence |-> "high",
                  supporting_metrics |-> <<driver.kpi>>]>>

\* the decision on the high-severity anomalies, lines 464-476
AnomalyDecisions(report) ==
    IF SelectSeq(report.anomalies, LAMBDA a : a.severity = "high") = <<>> THEN <<>>
    ELSE <<[decision |-> <<"Investigate and fix data quality issues before making decisions">>,
            confidence |-> "high",
            supporting_metrics |-> <<>>]>>

generate_decisions(report) ==
    Prefix(SortByConfidence(ExperimentDecisions(report) \o TrendDecisions(report)
                            \o SegmentDecisions(report) \o AnomalyDecisions(report)),
           5)

-----------------------------------------------------------------------------
(* SegmentDecompositionEngine and InsightEngine: the inputs the model draws from *)

\* n rows of segment label with value v in column kpi
SegBlock(label, v, n) == [i \in 1..n |-> [seg |-> label, kpi |-> Int2F(v)]]

RECURSIVE SegRows(_, _, _)
SegRows(labels, v, n) ==
    IF labels = <<>> THEN <<>>
    ELSE SegBlock(Head(labels), v[Head(labels)], n[Head(labels)]) \o SegRows(Tail(labels), v, n)

SegOrders == {<<"A", "B">>, <<"B", "A">>, <<"A", "B", "C">>}
SegValues == {0, 1, 10, 20}
SegCounts == {1, 2}

\* static datasets of one segment column and one KPI column
StaticFamily ==
    UNION {{SegRows(labels, v, n) : v \in [Range(labels) -> SegValues],
                                    n \in [Range(labels) -> SegCounts]} : labels \in SegOrders}

\* static datasets with nulls, and one with two segment columns and two KPI
\* columns, which has more drivers than top_n
WideRow(seg, region, kpi, other) ==
    [seg |-> seg, region |-> region, kpi |-> kpi, other |-> Int2F(other)]

NullsDf ==
    <<[seg |-> "A", kpi |-> Int2F(10)], [seg |-> Null, kpi |-> Int2F(4)],
      [seg |-> "B", kpi |-> NaN], [seg |-> "A", kpi |-> NaN], [seg |-> "C", kpi |-> Int2F(1)]>>

AllNaNDf == <<[seg |-> "A", kpi |-> NaN], [seg |-> "B", kpi |-> NaN]>>

\* a KPI of overall mean zero
ZeroMeanDf == SegBlock("A", 10, 1) \o SegBlock("B", -10, 2) \o SegBlock("C", 5, 2)

WideDf ==
    <<WideRow("A", "north", Int2F(10), 100), WideRow("B", "south", Int2F(0), 300),
      WideRow("C", "east", Int2F(2), 700), WideRow("A", "east", Int2F(1), 100),
      WideRow("B", "north", Int2F(0), 200), WideRow("C", "south", NaN, 400)>>

\* datasets with a date column
DatedRow(date, seg, kpi) == [date |-> date, seg |-> seg, kpi |-> Int2F(kpi)]

DatedDfs ==
    {<<DatedRow(3, "A", 20), DatedRow(1, "A", 10), DatedRow(2, "B", 10), DatedRow(4, "B", 10)>>,
     <<DatedRow(1, "A", 10), DatedRow(2, "B", 10), DatedRow(3, "A", 10), DatedRow(4, "B", 10)>>,
     <<DatedRow(1, "A", 10), DatedRow(1, "B", 30), DatedRow(2, "A", 0), DatedRow(2, "B", 20),
       DatedRow(2, "C", 5)>>}

\* the calls of analyze_segment_drivers
SegCalls ==
    {[df |-> df, segment_columns |-> <<"seg">>, kpi_columns |-> <<"kpi">>, date_col |-> None] :
        df \in StaticFamily \cup {NullsDf, AllNaNDf, ZeroMeanDf, <<>>}}
    \cup {[df |-> WideDf, segment_columns |-> sc, kpi_columns |-> kc, date_col |-> None] :
             sc \in {<<"seg", "region">>, <<"region", "missing", "seg">>},
             kc \in {<<"kpi", "other">>, <<"other", "missing", "kpi">>}}
    \cup {[df |-> df, segment_columns |-> <<"seg">>, kpi_columns |-> <<"kpi">>, date_col |-> dc] :
             df \in DatedDfs, dc \in {"date", None}}

\* experiment results as analyze_experiment stores them
ExpResult(kpi, significant, uplift_pct, p_value, warnings) ==
    [kpi |-> kpi, control_mean |-> Int2F(100), test_mean |-> Int2F(100 + uplift_pct),
     control_std2 |-> Int2F(100), test_std2 |-> Int2F(100),
     control_count |-> 1000, test_count |-> 1000,
     uplift_abs |-> Int2F(uplift_pct), uplift_pct |-> Int2F(uplift_pct),
     ci_lower |-> Int2F(uplift_pct - (IF significant THEN 1 ELSE 11)),
     ci_upper |-> Int2F(uplift_pct + (IF significant THEN 1 ELSE 11)),
     p_value |-> p_value, significant |-> significant, warnings |-> warnings]

ExperimentLists ==
    {<<>>,
     <<ExpResult("kpi", TRUE, 10, Num(1, 100), <<>>)>>,
     <<ExpResult("kpi", FALSE, 2, Num(3, 10), <<>>)>>,
     <<ExpResult("kpi", TRUE, -10, Num(1, 100), <<"unbalanced">>),
       ExpResult("other", TRUE, 10, Num(1, 100), <<>>),
       ExpResult("third", FALSE, 2, Num(3, 10), <<"small_sample">>),
       ExpResult("fourth", TRUE, 5, Num(1, 100), <<>>)>>}

\* trend summaries as analyze_trends stores them
Trend(kpi, direction, overall, recent) ==
    [kpi |-> kpi, direction |-> direction, overall_change_pct |-> Int2F(overall),
     recent_change_pct |-> Int2F(recent), description |-> direction]

TrendLists ==
    {<<>>,
     <<Trend("kpi", "decreasing", -10, -10)>>,
     <<Trend("other", "stable", 0, 0), Trend("kpi", "decreasing", -20, -12),
       Trend("third", "decreasing", -40, -30)>>}

Anomaly(type, severity, affected_column) ==
    [type |-> type, severity |-> severity, description |-> <<type, affected_column>>,
     affected_column |-> affected_column]

AnomalyLists ==
    {<<>>,
     <<Anomaly("data_quality", "high", "kpi"), Anomaly("data_quality", "medium", None),
       Anomaly("data_quality", "high", "other")>>,
     <<Anomaly("outlier", "medium", "kpi"), Anomaly("data_quality", "medium", "kpi"),
       Anomaly("data_quality", "medium", "other"), Anomaly("data_quality", "high", "third")>>}

\* Change points as detect_change_points stores them, largest change first.  A
\* change point of confidence "high" changes by more than 30 percent and one of
\* confidence "low" by at most 20, so no "low" stands before a "high"
MaxChangePoints == 3
Confidences == {"high", "medium", "low"}

ConfidenceLists ==
    {c \in SeqsUpTo(Confidences, MaxChangePoints) \cup {<<>>} :
        \A i, j \in 1..Len(c) : (i < j /\ c[i] = "low") => c[j] # "high"}

ChangePointAt(c, i) ==
    LET pct == IF \E j \in i..Len(c) : c[j] = "high" THEN 60 - 5 * i ELSE 20 - i
    IN [date |-> 10 * i, kpi |-> IF i % 2 = 1 THEN "kpi" ELSE "other",
        before_mean |-> Int2F(100), after_mean |-> Int2F(100 + pct),
        delta_abs |-> Int2F(pct), delta_pct |-> Int2F(pct), confidence |-> c[i]]

ChangePointLists == {[i \in 1..Len(c) |-> ChangePointAt(c, i)] : c \in ConfidenceLists}

\* segment drivers as analyze_segment_drivers stores them, largest contribution first
Driver(kpi, value, contribution_abs, contribution_pct) ==
    [segment_column |-> "seg", segment_value |-> value, kpi |-> kpi,
     contribution_abs |-> contribution_abs, contribution_pct |-> Int2F(contribution_pct),
     segment_mean |-> Int2F(10), segment_size |-> 10]

DriverLists ==
    {<<>>,
     <<Driver("third", "A", Int2F(1), 10), Driver("third", "B", Int2F(-1), -10)>>,
     <<Driver("other", "A", Int2F(5), 25), Driver("other", "B", Int2F(-5), -25)>>,
     <<Driver("third", "A", Int2F(9), 45), Driver("third", "B", Int2F(-6), -30),
       Driver("fourth", "B", Int2F(-5), -50), Driver("fourth", "A", Int2F(5), 50),
       Driver("fifth", "A", Int2F(4), 20), Driver("third", "C", Int2F(-3), -15),
       Driver("fifth", "B", Int2F(-2), -10), Driver("fifth", "C", Int2F(-2), -10)>>}

\* How an attempt on the enhancement provider ends: "off" (use_llm false or the
\* module not importable), "unavailable" (is_llm_available() false),
\* "available_raised" (is_llm_available() raises), "create_raised" and
\* "no_generator" (create_llm_generator() raises, returns nothing),
\* "enhance_raised" (the enhancement call raises, a timeout included), "nothing"
\* and "empty" (it returns None, an empty result) and "enhanced"
LlmOutcomes ==
    {"off", "unavailable", "available_raised", "create_raised", "no_generator",
     "enhance_raised", "nothing", "empty", "enhanced"}

\* the texts the provider returns as a summary
LlmSummaries ==
    {<<"U", "p", ".", " ", "O", "k", ".">>, <<"O", "k">>, <<".", " ", ".">>}

\* the data profile, time range and detected KPIs of a report
Profiles ==
    {[data_profile |-> [row_count |-> 10, column_count |-> 3, data_mode |-> "static"],
      time_range |-> <<>>, kpis_detected |-> <<>>],
     [data_profile |-> [row_count |-> 90, column_count |-> 4, data_mode |-> "both"],
      time_range |-> <<[start |-> 1, end |-> 90]>>,
      kpis_detected |-> <<[column_name |-> "kpi", is_primary |-> TRUE],
                          [column_name |-> "other", is_primary |-> TRUE],
                          [column_name |-> "third", is_primary |-> TRUE],
                          [column_name |-> "fourth", is_primary |-> TRUE],
                          [column_name |-> "fifth", is_primary |-> FALSE]>>]}

EmptyReport ==
    [change_points |-> <<>>, segment_drivers |-> <<>>, overall_trends |-> <<>>,
     experiment_results |-> <<>>, anomalies |-> <<>>]

RichReport ==
    [change_points |-> <<>>, segment_drivers |-> <<>>,
     overall_trends |-> <<Trend("other", "stable", 0, 0), Trend("kpi", "decreasing", -20, -12)>>,
     experiment_results |-> <<ExpResult("kpi", FALSE, 2, Num(3, 10), <<>>)>>,
     anomalies |-> <<Anomaly("data_quality", "high", "kpi")>>]

-----------------------------------------------------------------------------
(* SegmentDecompositionEngine and InsightEngine: actions *)

AnalyzeSegmentDrivers ==
    /\ call = NoCall
    /\ \E sc \in SegCalls :
          call' = [op |-> "analyze_segment_drivers", df |-> sc.df,
                   segment_columns |-> sc.segment_columns, kpi_columns |-> sc.kpi_columns,
                   date_col |-> sc.date_col, top_n |-> DefaultTopN,
                   drivers |-> analyze_segment_drivers(sc.df, sc.segment_columns,
                                                       sc.kpi_columns, sc.date_col, DefaultTopN)]

\* generate_hypotheses on a report of the engines' results
GenerateHypotheses ==
    /\ call = NoCall
    /\ \E change_points \in ChangePointLists, segment_drivers \in DriverLists,
          experiment_results \in ExperimentLists, anomalies \in AnomalyLists :
          \E llm \in (IF experiment_results = <<>> THEN LlmOutcomes ELSE {"off"}) :
             LET report == [change_points |-> change_points,
                            segment_drivers |-> segment_drivers,
                            overall_trends |-> <<>>,
                            experiment_results |-> experiment_results,
                            anomalies |-> anomalies]
             IN call' = [op |-> "generate_hypotheses", report |-> report, llm |-> llm,
                         raised |-> Propagates(llm),
                         hypotheses |-> IF Propagates(llm) THEN <<>>
                                        ELSE generate_hypotheses(report, llm)]

\* generate_executive_summary on a report of the engines' results
GenerateExecutiveSummary ==
    /\ call = NoCall
    /\ \E profile \in Profiles, change_points \in ChangePointLists,
          experiment_results \in ExperimentLists, anomalies \in AnomalyLists,
          llm \in LlmOutcomes :
          \E llm_summary \in (IF llm = "enhanced" THEN LlmSummaries ELSE {<<>>}) :
             LET report == [data_profile |-> profile.data_profile,
                            time_range |-> profile.time_range,
                            kpis_detected |-> profile.kpis_detected,
                            change_points |-> change_points,
                            segment_drivers |-> <<>>, overall_trends |-> <<>>,
                            experiment_results |-> experiment_results,
                            anomalies |-> anomalies]
             IN call' = [op |-> "generate_executive_summary", report |-> report,
                         llm |-> llm, llm_summary |-> llm_summary,
                         raised |-> Propagates(llm),
                         bullets |-> IF Propagates(llm) THEN <<>>
                                     ELSE generate_executive_summary(report, llm, llm_summary)]

\* the other engines' results that stand in the report next to the segment drivers
Contexts(df) ==
    IF df \in StaticFamily THEN {EmptyReport, RichReport}
    ELSE {[change_points |-> <<>>, segment_drivers |-> <<>>, overall_trends |-> t,
           experiment_results |-> e, anomalies |-> a] :
             t \in TrendLists, e \in ExperimentLists, a \in AnomalyLists}

\* generate_decisions on the report analyze_csv builds (cli.py, lines 100-146):
\* its segment drivers are those analyze_segment_drivers finds in df
GenerateDecisions ==
    /\ call = NoCall
    /\ \E sc \in SegCalls :
          \E context \in Contexts(sc.df) :
             LET report == [context EXCEPT !.segment_drivers =
                               analyze_segment_drivers(sc.df, sc.segment_columns,
                                                       sc.kpi_columns, sc.date_col,
                                                       DefaultTopN)]
             IN call' = [op |-> "generate_decisions", df |-> sc.df,
                         segment_columns |-> sc.segment_columns,
                         kpi_columns |-> sc.kpi_columns, date_col |-> sc.date_col,
                         report |-> report, decisions |-> generate_decisions(report)]

\* a static dataset of three KPI columns, each above its mean in one segment
\* and below it in the other
ThreeKpiRow(seg, kpi, other, third) ==
    [seg |-> seg, kpi |-> Int2F(kpi), other |-> Int2F(other), third |-> Int2F(third)]

ThreeKpiDf ==
    <<ThreeKpiRow("A", 10, 40, 8), ThreeKpiRow("B", 30, 20, 2),
      ThreeKpiRow("A", 10, 40, 6), ThreeKpiRow("B", 30, 20, 4)>>

SegHypothesisCalls ==
    SegCalls
    \cup {[df |-> ThreeKpiDf, segment_columns |-> <<"seg">>, kpi_columns |-> kc,
            date_col |-> None] : kc \in {<<"kpi", "other">>, <<"kpi", "other", "third">>}}

\* generate_segment_hypotheses on the drivers analyze_segment_drivers finds
\* (insights.py, line 55)
GenerateSegmentHypotheses ==
    /\ call = NoCall
    /\ \E sc \in SegHypothesisCalls :
          \E drivers \in {analyze_segment_drivers(sc.df, sc.segment_columns, sc.kpi_columns,
                                                  sc.date_col, DefaultTopN)} :
             call' = [op |-> "generate_segment_hypotheses", df |-> sc.df,
                      kpi_columns |-> sc.kpi_columns, segment_drivers |-> drivers,
                      hypotheses |-> generate_segment_hypotheses(drivers, <<>>)]

\* generate_anomaly_hypotheses on a list of anomalies (insights.py, line 61)
GenerateAnomalyHypotheses ==
    /\ call = NoCall
    /\ \E anomalies \in AnomalyLists :
          call' = [op |-> "generate_anomaly_hypotheses", anomalies |-> anomalies,
                   hypotheses |-> generate_anomaly_hypotheses(anomalies)]

NextInsight ==
    \/ AnalyzeSegmentDrivers
    \/ GenerateHypotheses
    \/ GenerateExecutiveSummary
    \/ GenerateDecisions
    \/ GenerateSegmentHypotheses
    \/ GenerateAnomalyHypotheses

SpecInsight == Init /\ [][NextInsight]_vars

-----------------------------------------------------------------------------
(* The call on the enhancement provider, step by step.  generate_hypotheses     *)
(* and generate_executive_summary call the provider synchronously inside the    *)
(* try (lines 44 and 500) and go on when the call returns or raises.  The       *)
(* provider (llm_insights.py) is outside the sources; its interface bounds each *)
(* call by a timeout, which ends the call with an exception.                    *)

\* what the function returns, or that it raised, once the attempt has ended as llm
Finished(c, llm, llm_summary) ==
    IF c.fn = "hypotheses"
    THEN [op |-> "generate_hypotheses", report |-> c.report, llm |-> llm,
          provider |-> c.provider, raised |-> Propagates(llm),
          hypotheses |-> IF Propagates(llm) THEN <<>> ELSE generate_hypotheses(c.report, llm)]
    ELSE [op |-> "generate_executive_summary", report |-> c.report, llm |-> llm,
          llm_summary |-> llm_summary, provider |-> c.provider, raised |-> Propagates(llm),
          bullets |-> IF Propagates(llm) THEN <<>>
                      ELSE generate_executive_summary(c.report, llm, llm_summary)]

Providers == {"responds", "silent"}

\* the findings of the reports the provider is called on
EnhancedChangePointLists == {<<>>, <<ChangePointAt(<<"medium">>, 1)>>}
EnhancedExperimentLists == {e \in ExperimentLists : Len(e) <= 1}
EnhancedAnomalyLists ==
    {<<>>, <<Anomaly("outlier", "medium", "kpi"), Anomaly("data_quality", "high", "kpi")>>}

\* The provider is available, the generator is created and the enhancement call is
\* made: the function waits for it
CallProvider ==
    /\ call = NoCall
    /\ \E profile \in Profiles, change_points \in EnhancedChangePointLists,
          experiment_results \in EnhancedExperimentLists, anomalies \in EnhancedAnomalyLists,
          fn \in {"hypotheses", "summary"}, provider \in Providers :
          call' = [op |-> "enhancing", fn |-> fn, provider |-> provider,
                   report |-> [data_profile |-> profile.data_profile,
                               time_range |-> profile.time_range,
                               kpis_detected |-> profile.kpis_detected,
                               change_points |-> change_points,
                               segment_drivers |-> <<>>, overall_trends |-> <<>>,
                               experiment_results |-> experiment_results,
                               anomalies |-> anomalies]]

\* the provider answers: it raises, or returns nothing, an empty result or a result
ProviderResponds ==
    /\ call.op = "enhancing"
    /\ call.provider = "responds"
    /\ \E llm \in {"enhance_raised", "nothing", "empty", "enhanced"} :
          \E llm_summary \in (IF llm = "enhanced" /\ call.fn = "summary"
                              THEN LlmSummaries ELSE {<<>>}) :
             call' = Finished(call, llm, llm_summary)

\* the timeout of the call ends it with an exception
ProviderTimesOut ==
    /\ call.op = "enhancing"
    /\ call' = Finished(call, "enhance_raised", <<>>)

NextEnhancement == CallProvider \/ ProviderResponds \/ ProviderTimesOut

\* the timeout fires on a call that has not ended
SpecEnhancement == Init /\ [][NextEnhancement]_vars /\ WF_vars(ProviderTimesOut)

-----------------------------------------------------------------------------
(* ProfilingEngine (profiling.py, ingest.py).  A text (a column name, a      *)
(* keyword, a label) is the sequence of its characters, so that "keyword in  *)
(* col" is the substring test the code makes.  A profiled dataframe is the    *)
(* sequence of its columns, a column a record of its name, its dtype          *)
(* ("numeric", "datetime" or "object") and its values: numbers (nan for a     *)
(* missing one) in a numeric or datetime column, texts otherwise.             *)

\* the characters that occur, in code-point order
CodePoints ==
    <<"-", "0", "1", "2", "3", "4", "5", "6", "7", "8", "9",
      "A", "B", "C", "D", "E", "F", "G", "H", "I", "J", "K", "L", "M",
      "N", "O", "P", "Q", "R", "S", "T", "U", "V", "W", "X", "Y", "Z", "_",
      "a", "b", "c", "d", "e", "f", "g", "h", "i", "j", "k", "l", "m",
      "n", "o", "p", "q", "r", "s", "t", "u", "v", "w", "x", "y", "z">>

Ord(c) == CHOOSE i \in 1..Len(CodePoints) : CodePoints[i] = c

\* any(keyword in col for keyword in keywords)
AnyIn(keywords, col) == \E k \in 1..Len(keywords) : Contains(keywords[k], col)

\* col.endswith(suffix)
endswith(col, suffix) ==
    Len(col) >= Len(suffix) /\ SubSeq(col, Len(col) - Len(suffix) + 1, Len(col)) = suffix

\* a < b for two texts: by code points, a proper prefix first
TextLt(a, b) ==
    \/ Len(a) < Len(b) /\ SubSeq(b, 1, Len(a)) = a
    \/ \E i \in 1..MinI(Len(a), Len(b)) :
          /\ SubSeq(a, 1, i - 1) = SubSeq(b, 1, i - 1)
          /\ Ord(a[i]) < Ord(b[i])

\* a value of a text column, and the missing one, which no text equals
Text(chars) == [text |-> chars]
NullText == [text |-> <<Null>>]

\* an optional value (a name or None)
NoneOf == <<>>
Some(x) == <<x>>

\* Series.isna() on one value: nan in a numeric or datetime column
IsMissing(series, v) == IF series.dtype = "object" THEN v = NullText ELSE IsNaN(v)

\* Series.dropna()
dropna(series) == SelectSeq(series.values, LAMBDA v : ~IsMissing(series, v))

\* Series.nunique(): the distinct values, missing ones not counted
nunique(series) == Cardinality({v \in {series.values[i] : i \in 1..Len(series.values)} : ~IsMissing(series, v)})

\* Series.min() and Series.max() of a numeric column: missing values are skipped
SeriesMin(series) ==
    LET v == dropna(series)
    IN IF v = <<>> THEN NaN
       ELSE v[CHOOSE i \in 1..Len(v) : \A j \in 1..Len(v) : FLe(v[i], v[j])]

SeriesMax(series) ==
    LET v == dropna(series)
    IN IF v = <<>> THEN NaN
       ELSE v[CHOOSE i \in 1..Len(v) : \A j \in 1..Len(v) : FGe(v[i], v[j])]

HexChars == {"a", "b", "c", "d", "e", "f", "-",
             "0", "1", "2", "3", "4", "5", "6", "7", "8", "9"}

\* re.match(r'^[a-f0-9-]+$', s)
LooksHex(s) == s # <<>> /\ \A i \in 1..Len(s) : s[i] \in HexChars

\* infer_column_type (ingest.py)
infer_column_type(series) ==
    LET non_null == dropna(series)
        cardinality == nunique(series)
        total_count == Len(series.values)
        sample == Prefix(non_null, 10)
    IN IF Len(non_null) = 0 THEN "unknown"
       ELSE IF series.dtype = "datetime" THEN "datetime"
       ELSE IF series.dtype = "numeric" THEN "numeric"
       ELSE IF cardinality * 100 > 95 * total_count
            THEN (IF \/ \A i \in 1..Len(sample) : Len(sample[i].text) > 10
                     \/ \A i \in 1..Len(sample) : LooksHex(sample[i].text)
                  THEN "id" ELSE "text")
       ELSE IF cardinality < 50 \/ cardinality * 100 < 5 * total_count THEN "categorical"
       ELSE "text"

\* the fields of a column profile that the detectors read (profile_data, the loop
\* over df.columns).  has_stats: the profile holds min and max, which it does for
\* a numeric dtype; they are nan here where the code stores None, on a column
\* with no value, which infer_column_type never calls numeric
ColumnProfile(series) ==
    LET nulls == Len(series.values) - Len(dropna(series))
    IN [semantic_type |-> infer_column_type(series),
        null_count |-> nulls,
        null_pct |-> FDiv(Int2F(nulls * 100), Int2F(Len(series.values))),
        unique_count |-> nunique(series),
        has_stats |-> series.dtype = "numeric",
        min |-> IF series.dtype = "numeric" THEN SeriesMin(series) ELSE NaN,
        max |-> IF series.dtype = "numeric" THEN SeriesMax(series) ELSE NaN]

\* a profile that holds the semantic type only, as the tests of detect_kpis pass
BareProfile(series) ==
    [semantic_type |-> IF series.dtype = "numeric" THEN "numeric" ELSE "other",
     null_count |-> 0, null_pct |-> Zero, unique_count |-> 0,
     has_stats |-> FALSE, min |-> NaN, max |-> NaN]

\* profile.columns: the profile of each column, in column order
ColumnProfiles(df) == [i \in 1..Len(df) |-> ColumnProfile(df[i])]

experiment_keywords ==
    <<<<"v", "a", "r", "i", "a", "n", "t">>,
      <<"g", "r", "o", "u", "p">>,
      <<"e", "x", "p", "e", "r", "i", "m", "e", "n", "t">>,
      <<"t", "r", "e", "a", "t", "m", "e", "n", "t">>,
      <<"c", "o", "n", "t", "r", "o", "l">>,
      <<"t", "e", "s", "t">>,
      <<"a", "r", "m">>>>

\* a plausible slip: the limit taken as exclusive
LowCardinality_exclusive(series) == nunique(series) < 10

\* df[col].nunique() <= 10
LowCardinality(series) == nunique(series) <= 10

HasExperiment(df) ==
    \E i \in 1..Len(df) :
       AnyIn(experiment_keywords, df[i].name) /\ LowCardinality(df[i])

detect_data_mode(df, date_col) ==
    LET has_timeseries == date_col # NoneOf
        has_experiment == HasExperiment(df)
    IN IF has_timeseries /\ has_experiment THEN "both"
       ELSE IF has_timeseries THEN "timeseries"
       ELSE IF has_experiment THEN "experiment"
       ELSE "static"

rate_keywords ==
    <<<<"r", "a", "t", "e">>,
      <<"c", "o", "n", "v", "e", "r", "s", "i", "o", "n">>,
      <<"r", "e", "t", "e", "n", "t", "i", "o", "n">>,
      <<"p", "c", "t">>,
      <<"p", "e", "r", "c", "e", "n", "t">>,
      <<"r", "a", "t", "i", "o">>,
      <<"c", "t", "r">>,
      <<"c", "v", "r">>>>

count_keywords ==
    <<<<"c", "o", "u", "n", "t">>,
      <<"u", "s", "e", "r", "s">>,
      <<"d", "a", "u">>,
      <<"m", "a", "u">>,
      <<"w", "a", "u">>,
      <<"s", "e", "s", "s", "i", "o", "n", "s">>,
      <<"v", "i", "s", "i", "t", "s">>,
      <<"i", "m", "p", "r", "e", "s", "s", "i", "o", "n", "s">>,
      <<"c", "l", "i", "c", "k", "s">>,
      <<"e", "v", "e", "n", "t", "s">>>>

money_keywords ==
    <<<<"r", "e", "v", "e", "n", "u", "e">>,
      <<"a", "r", "r">>,
      <<"m", "r", "r">>,
      <<"l", "t", "v">>,
      <<"a", "r", "p", "u">>,
      <<"a", "r", "p", "d", "a", "u">>,
      <<"a", "r", "p", "p", "u">>,
      <<"p", "r", "i", "c", "e">>,
      <<"c", "o", "s", "t">>,
      <<"s", "p", "e", "n", "d">>>>

duration_keywords ==
    <<<<"d", "u", "r", "a", "t", "i", "o", "n">>,
      <<"t", "i", "m", "e">>,
      <<"l", "a", "t", "e", "n", "c", "y">>,
      <<"t", "t", "f", "b">>,
      <<"l", "o", "a", "d", "_", "t", "i", "m", "e">>,
      <<"s", "e", "s", "s", "i", "o", "n", "_", "l", "e", "n", "g", "t", "h">>>>

denominator_keywords ==
    <<<<"t", "o", "t", "a", "l">>,
      <<"v", "i", "s", "i", "t">>,
      <<"s", "e", "s", "s", "i", "o", "n">>,
      <<"u", "s", "e", "r">>>>

primary_keywords ==
    <<<<"r", "e", "v", "e", "n", "u", "e">>,
      <<"c", "o", "n", "v", "e", "r", "s", "i", "o", "n">>,
      <<"r", "e", "t", "e", "n", "t", "i", "o", "n">>,
      <<"d", "a", "u">>,
      <<"e", "n", "g", "a", "g", "e", "m", "e", "n", "t">>,
      <<"g", "m", "v">>>>

Conversion == <<"c", "o", "n", "v", "e", "r", "s", "i", "o", "n">>

\* profile.get("min", 0) >= 0 and profile.get("max", 2) <= 1
ValuesInUnitRange(profile) ==
    LET lo == IF profile.has_stats THEN profile.min ELSE Zero
        hi == IF profile.has_stats THEN profile.max ELSE Int2F(2)
    IN FGe(lo, Zero) /\ FLe(hi, Int2F(1))

\* the if-chain of detect_kpis on the lower-cased name
KpiType(col_lower, profile) ==
    IF AnyIn(rate_keywords, col_lower) THEN "rate"
    ELSE IF AnyIn(money_keywords, col_lower) THEN "money"
    ELSE IF AnyIn(duration_keywords, col_lower) THEN "duration"
    ELSE IF AnyIn(count_keywords, col_lower) THEN "count"
    ELSE IF ValuesInUnitRange(profile) THEN "ratio"
    ELSE "count"

UnitOf(kpi_type) ==
    IF kpi_type \in {"rate", "ratio"} THEN "fraction"
    ELSE IF kpi_type = "money" THEN "currency"
    ELSE IF kpi_type = "duration" THEN "seconds"
    ELSE "count"

\* the inner loop over possible_denom: the first column that is neither col nor
\* the numerator and whose name holds a denominator keyword; found is the
\* denominator so far, kept when the loop finds none
FirstDenominator(df, col, numerator, found) ==
    LET hits == {j \in 1..Len(df) : /\ df[j].name # col
                                     /\ Some(df[j].name) # numerator
                                     /\ AnyIn(denominator_keywords, LowerStr(df[j].name))}
    IN IF hits = {} THEN found
       ELSE Some(df[CHOOSE j \in hits : \A h \in hits : j <= h].name)

\* the loop over possible_num, from column p on, for a rate KPI
RECURSIVE PairFrom(_, _, _, _)
PairFrom(df, col, p, pair) ==
    IF p > Len(df) THEN pair
    ELSE IF df[p].name = col THEN PairFrom(df, col, p + 1, pair)
    ELSE LET numerator == IF Contains(Conversion, LowerStr(col)) /\ Contains(Conversion, LowerStr(df[p].name))
                          THEN Some(df[p].name) ELSE pair.numerator
         IN PairFrom(df, col, p + 1,
                     [numerator |-> numerator,
                      denominator |-> FirstDenominator(df, col, numerator, pair.denominator)])

KpiOf(df, col, profile) ==
    LET kpi_type == KpiType(LowerStr(col), profile)
        pair == IF kpi_type = "rate"
                THEN PairFrom(df, col, 1, [numerator |-> NoneOf, denominator |-> NoneOf])
                ELSE [numerator |-> NoneOf, denominator |-> NoneOf]
    IN [column_name |-> col, kpi_type |-> kpi_type,
        numerator |-> pair.numerator, denominator |-> pair.denominator,
        unit |-> UnitOf(kpi_type),
        is_primary |-> AnyIn(primary_keywords, LowerStr(col))]

\* the columns detect_kpis does not skip: numeric and not named like an identifier
IsKpiColumn(col, profile) ==
    /\ profile.semantic_type = "numeric"
    /\ ~(endswith(col, <<"_", "i", "d">>) \/ col = <<"i", "d">>)

\* kpis.sort(key=lambda k: (not k.is_primary, k.column_name))
KpiBefore(pair) ==
    LET x == pair[1]
        e == pair[2]
    IN \/ x.is_primary /\ ~e.is_primary
       \/ x.is_primary = e.is_primary /\ TextLt(x.column_name, e.column_name)

\* detect_kpis: the KPIs in sorted order
detect_kpis(df, column_profiles) ==
    LET cols == SelectSeqIdx([i \in 1..Len(df) |-> i],
                             LAMBDA i : IsKpiColumn(df[i].name, column_profiles[i]), 1)
        kpis == [c \in 1..Len(cols) |-> KpiOf(df, df[cols[c]].name, column_profiles[cols[c]])]
    IN StableSort(kpis, KpiBefore)

-----------------------------------------------------------------------------
(* ProfilingEngine: the inputs the model draws from *)

\* a column of n distinct numbers followed by `missing` missing values
NumericColumn(name, n, missing) ==
    [name |-> name, dtype |-> "numeric",
     values |-> [i \in 1..(n + missing) |-> IF i <= n THEN Int2F(i) ELSE NaN]]

\* a column of n distinct one-letter labels followed by `missing` missing values
ObjectColumn(name, n, missing) ==
    [name |-> name, dtype |-> "object",
     values |-> [i \in 1..(n + missing) |-> IF i <= n THEN Text(<<CodePoints[38 + i]>>) ELSE NullText]]

ModeNames ==
    {<<"v", "a", "r", "i", "a", "n", "t">>, <<"V", "a", "r", "i", "a", "n", "t">>,
     <<"t", "e", "s", "t", "_", "g", "r", "o", "u", "p">>, <<"l", "a", "t", "e", "s", "t">>,
     <<"a", "l", "a", "r", "m">>, <<"v", "a", "l", "u", "e">>,
     <<"u", "s", "e", "r", "_", "i", "d">>, <<"c", "o", "n", "t", "r", "o", "l">>}

\* <<distinct values, missing values>>: around the limit of ten, and nothing at all
ModeShapes == {<<2, 0>>, <<10, 0>>, <<10, 2>>, <<11, 0>>, <<0, 2>>}

ModeColumns ==
    {NumericColumn(name, shape[1], shape[2]) : name \in ModeNames, shape \in ModeShapes}
    \cup {ObjectColumn(name, shape[1], shape[2]) : name \in ModeNames, shape \in ModeShapes}

DateName == <<"d", "a", "t", "e">>

\* the parsed date column of a dataframe of `rows` rows
DateColumn(rows) ==
    [name |-> DateName, dtype |-> "datetime", values |-> [i \in 1..rows |-> Int2F(i)]]

\* the second column of a two-column dataframe
ModeSeconds ==
    {ObjectColumn(<<"a", "r", "m">>, 2, 0), ObjectColumn(<<"g", "r", "o", "u", "p">>, 11, 0),
     NumericColumn(<<"m", "e", "t", "r", "i", "c">>, 11, 0)}

ModeFrames ==
    {<<c>> : c \in ModeColumns}
    \cup {<<c, d>> : c \in ModeColumns, d \in ModeSeconds}
    \cup {<<DateColumn(Len(c.values)), c>> : c \in ModeColumns}

DateCols == {NoneOf, Some(DateName)}

KpiNames ==
    {<<"r", "e", "v", "e", "n", "u", "e">>, <<"d", "a", "u">>,
     <<"c", "o", "n", "v", "e", "r", "s", "i", "o", "n", "_", "r", "a", "t", "e">>,
     <<"c", "o", "n", "v", "e", "r", "s", "i", "o", "n", "s">>,
     <<"t", "o", "t", "a", "l", "_", "v", "i", "s", "i", "t", "s">>,
     <<"u", "s", "e", "r", "_", "i", "d">>, <<"i", "d">>,
     <<"u", "s", "e", "r", "s", "_", "r", "e", "v", "e", "n", "u", "e">>,
     <<"d", "i", "s", "c", "o", "u", "n", "t", "_", "p", "r", "i", "c", "e">>,
     <<"s", "e", "s", "s", "i", "o", "n", "s", "_", "t", "i", "m", "e">>,
     <<"c", "l", "i", "c", "k", "s", "_", "l", "a", "t", "e", "n", "c", "y">>,
     <<"r", "a", "t", "e", "_", "c", "o", "u", "n", "t">>, <<"s", "c", "o", "r", "e">>,
     <<"s", "h", "a", "r", "e">>, <<"E", "v", "e", "n", "t", "s">>,
     <<"s", "t", "a", "r", "r", "e", "d">>, <<"g", "e", "n", "e", "r", "a", "t", "e", "d">>}

\* the values of a numeric KPI column
KpiValues ==
    {<<Zero, Int2F(1)>>, <<Num(1, 2), Num(1, 4)>>, <<Zero, Int2F(2)>>,
     <<Int2F(-1), Zero>>, <<NaN, Num(1, 2)>>, <<NaN, Int2F(3)>>, <<NaN, NaN>>}

KpiColumns == {[name |-> name, dtype |-> "numeric", values |-> v] : name \in KpiNames, v \in KpiValues}

\* the dataframe of the test of detect_kpis, and one with two candidate numerators
KpiTestFrame ==
    <<DateColumn(2),
      [name |-> <<"r", "e", "v", "e", "n", "u", "e">>, dtype |-> "numeric", values |-> <<Int2F(100), Int2F(150)>>],
      [name |-> <<"d", "a", "u">>, dtype |-> "numeric", values |-> <<Int2F(1000), Int2F(1100)>>],
      [name |-> <<"c", "o", "n", "v", "e", "r", "s", "i", "o", "n", "_", "r", "a", "t", "e">>, dtype |-> "numeric", values |-> <<Num(1, 20), Num(3, 50)>>],
      [name |-> <<"u", "s", "e", "r", "_", "i", "d">>, dtype |-> "numeric", values |-> <<Zero, Int2F(1)>>]>>

KpiPairFrame ==
    <<[name |-> <<"c", "o", "n", "v", "e", "r", "s", "i", "o", "n", "s">>, dtype |-> "numeric", values |-> <<Int2F(5), Int2F(6)>>],
      [name |-> <<"t", "o", "t", "a", "l", "_", "v", "i", "s", "i", "t", "s">>, dtype |-> "numeric", values |-> <<Int2F(100), Int2F(100)>>],
      [name |-> <<"c", "o", "n", "v", "e", "r", "s", "i", "o", "n", "_", "r", "a", "t", "e">>, dtype |-> "numeric", values |-> <<Num(1, 20), Num(3, 50)>>],
      [name |-> <<"c", "o", "n", "v", "e", "r", "s", "i", "o", "n", "_", "u", "s", "e", "r", "s">>, dtype |-> "numeric", values |-> <<Int2F(5), Int2F(6)>>],
      ObjectColumn(<<"c", "o", "u", "n", "t", "r", "y">>, 2, 0)>>

KpiFrames ==
    {<<c>> : c \in KpiColumns}
    \cup {f \in {<<c, d>> : c \in {k \in KpiColumns : k.values = <<Zero, Int2F(1)>>},
                           d \in {k \in KpiColumns : k.values = <<Zero, Int2F(2)>>}} :
             f[1].name # f[2].name}
    \cup {<<c, ObjectColumn(<<"c", "o", "u", "n", "t", "r", "y">>, 2, 0)>> : c \in KpiColumns}
    \cup {KpiTestFrame, KpiPairFrame}

-----------------------------------------------------------------------------
(* ProfilingEngine: actions *)

DetectDataMode ==
    /\ call = NoCall
    /\ \E df \in ModeFrames, date_col \in DateCols :
          call' = [op |-> "detect_data_mode", df |-> df, date_col |-> date_col,
                   data_mode |-> detect_data_mode(df, date_col)]

\* detect_kpis on the profiles profile_data builds (cli.py), or on profiles that
\* hold the semantic type only
DetectKpis ==
    /\ call = NoCall
    /\ \E df \in KpiFrames, full \in BOOLEAN :
          LET column_profiles == IF full THEN ColumnProfiles(df)
                                 ELSE [i \in 1..Len(df) |-> BareProfile(df[i])]
          IN call' = [op |-> "detect_kpis", df |-> df, column_profiles |-> column_profiles,
                      kpis |-> detect_kpis(df, column_profiles)]

NextProfiling == DetectDataMode \/ DetectKpis

SpecProfiling == Init /\ [][NextProfiling]_vars

-----------------------------------------------------------------------------
(* The pipeline: analyze_csv (cli.py) and the /analyze endpoint (api.py).     *)
(* The dataset ingest_csv returns is the record of its column names in order  *)
(* and its rows, a dataframe of the segment engine: names and labels are       *)
(* strings there, and Spelling gives their characters to the detectors that    *)
(* look into them.  A column's dtype goes by its name.                         *)

Spelling ==
    [date |-> <<"d", "a", "t", "e">>, seg |-> <<"s", "e", "g">>,
     region |-> <<"r", "e", "g", "i", "o", "n">>, kpi |-> <<"k", "p", "i">>,
     other |-> <<"o", "t", "h", "e", "r">>,
     variant |-> <<"v", "a", "r", "i", "a", "n", "t">>,
     A |-> <<"A">>, B |-> <<"B">>, C |-> <<"C">>,
     north |-> <<"n", "o", "r", "t", "h">>, south |-> <<"s", "o", "u", "t", "h">>,
     east |-> <<"e", "a", "s", "t">>, control |-> LblControl, test |-> LblTest]

Spell(s) == Spelling[s]
Unspell(chars) == CHOOSE s \in DOMAIN Spelling : Spelling[s] = chars

Dtypes ==
    [date |-> "datetime", seg |-> "object", region |-> "object", variant |-> "object",
     kpi |-> "numeric", other |-> "numeric"]

\* df[c] as the detectors of profiling.py see it
SeriesOf(ds, c) ==
    [name |-> Spell(c), dtype |-> Dtypes[c],
     values |-> [r \in 1..Len(ds.rows) |->
                   LET v == ds.rows[r][c]
                   IN IF Dtypes[c] = "numeric" THEN v
                      ELSE IF Dtypes[c] = "datetime" THEN Int2F(v)
                      ELSE IF v = Null THEN NullText
                      ELSE Text(Spell(v))]]

FrameOf(ds) == [i \in 1..Len(ds.columns) |-> SeriesOf(ds, ds.columns[i])]

\* df.select_dtypes(include=[np.number]).columns
NumericColumns(ds) == SelectSeq(ds.columns, LAMBDA c : Dtypes[c] = "numeric")

\* df.duplicated().sum(): the rows equal to an earlier row
DuplicateCount(df) == Cardinality({i \in 1..Len(df) : \E j \in 1..(i - 1) : df[j] = df[i]})

\* metadata["validation_issues"] of clean_and_validate_data (ingest.py): the note
\* on duplicate rows; the notes on negative counts and on rates above 1 are for
\* column names that hold a metric keyword, which none of the names here does
ValidationIssues(ds) ==
    IF DuplicateCount(ds.rows) > 0
    THEN <<<<"Found duplicate rows", DuplicateCount(ds.rows)>>>>
    ELSE <<>>

\* the time range of profile_data, lines 27-35: <<>> for None
TimeRange(ds, date_col) ==
    IF date_col = None \/ date_col \notin Range(ds.columns) \/ ds.rows = <<>> THEN <<>>
    ELSE LET days == {ds.rows[i][date_col] : i \in 1..Len(ds.rows)}
             lo == CHOOSE d \in days : \A e \in days : d <= e
             hi == CHOOSE d \in days : \A e \in days : d >= e
         IN <<[start |-> lo, end |-> hi, days |-> hi - lo]>>

\* the quality issues of profile_data, lines 67-85
HighMissingness(col, profile) ==
    IF FGt(profile.null_pct, Int2F(50))
    THEN <<[type |-> "high_missingness", column |-> col,
            severity |-> IF FGt(profile.null_pct, Int2F(80)) THEN "high" ELSE "medium",
            description |-> <<"has missing values", col, profile.null_pct>>]>>
    ELSE <<>>

RECURSIVE MissingnessIssues(_, _, _)
MissingnessIssues(columns, profiles, i) ==
    IF i > Len(columns) THEN <<>>
    ELSE HighMissingness(columns[i], profiles[i]) \o MissingnessIssues(columns, profiles, i + 1)

ValidationIssue(issue) ==
    [type |-> "validation", column |-> None, severity |-> "medium", description |-> issue]

profile_data(ds, date_col, validation_issues) ==
    LET df == FrameOf(ds)
        columns == ColumnProfiles(df)
    IN [row_count |-> Len(ds.rows),
        column_count |-> Len(ds.columns),
        duplicate_count |-> DuplicateCount(ds.rows),
        date_column |-> date_col,
        time_range |-> TimeRange(ds, date_col),
        columns |-> columns,
        quality_issues |-> MissingnessIssues(ds.columns, columns, 1)
                           \o Map(validation_issues, ValidationIssue),
        data_mode |-> detect_data_mode(df, IF date_col = None THEN NoneOf
                                           ELSE Some(Spell(date_col)))]

\* detect_segment_columns: the categorical columns of two to fifty values
detect_segment_columns(df, column_profiles) ==
    LET hits == SelectSeqIdx(column_profiles,
                             LAMBDA p : /\ p.semantic_type = "categorical"
                                        /\ 2 <= p.unique_count /\ p.unique_count <= 50, 1)
    IN [i \in 1..Len(hits) |-> df[hits[i]].name]

column_keywords ==
    <<<<"v", "a", "r", "i", "a", "n", "t">>,
      <<"g", "r", "o", "u", "p">>,
      <<"e", "x", "p", "e", "r", "i", "m", "e", "n", "t">>,
      <<"t", "r", "e", "a", "t", "m", "e", "n", "t">>,
      <<"a", "r", "m">>>>

\* the test of the second loop of detect_experiment_column on a text column: a
\* value that holds "control" and one that holds "test" or "treatment"
HasControlAndTest(series) ==
    LET unique_vals_lower == {LowerStr(v.text) : v \in Range(dropna(series))}
    IN /\ series.dtype = "object"
       /\ \E v \in unique_vals_lower : Contains(LblControl, v)
       /\ \E v \in unique_vals_lower : Contains(LblTest, v) \/ Contains(LblTreatment, v)

\* detect_experiment_column: the first column named like an experiment that has
\* at most ten values, else the first text column with control and test values
detect_experiment_column(df) ==
    LET named == SelectSeqIdx(df, LAMBDA s : /\ AnyIn(column_keywords, LowerStr(s.name))
                                             /\ nunique(s) <= 10, 1)
        valued == SelectSeqIdx(df, HasControlAndTest, 1)
    IN IF named # <<>> THEN Some(df[named[1]].name)
       ELSE IF valued # <<>> THEN Some(df[valued[1]].name)
       ELSE NoneOf

\* detect_peeking_risk (analysis_experiments.py): the warnings on a short run and
\* on weekdays the run does not cover; a date is a day number
detect_peeking_risk(ds, date_col, experiment_col) ==
    IF date_col = None \/ ds.rows = <<>> THEN <<>>
    ELSE LET days == {ds.rows[i][date_col] : i \in 1..Len(ds.rows)}
             lo == CHOOSE d \in days : \A e \in days : d <= e
             hi == CHOOSE d \in days : \A e \in days : d >= e
             duration_days == hi - lo
             dow_counts == {d % 7 : d \in days}
         IN (IF duration_days < 7 THEN <<<<"Experiment ran for only", duration_days>>>>
             ELSE <<>>)
            \o (IF Cardinality(dow_counts) < 7 /\ duration_days >= 7
                THEN <<<<"Experiment doesn't cover all days of the week">>>>
                ELSE <<>>)

\* the observations of one arm as a bag; the KPI values of the datasets here are
\* whole numbers
BagOf(s) ==
    [x \in {s[i].n : i \in 1..Len(s)} |-> Cardinality({i \in 1..Len(s) : s[i].n = x})]

\* what analyze_experiment reads of df: the labels of the experiment column (a
\* text column) and, for each numeric column and label, the arm's observations
ExperimentView(ds, experiment_col) ==
    LET labels == Unique(SelectSeq(Column(ds.rows, experiment_col), LAMBDA v : v # Null))
    IN [variants |-> Map(labels, Spell),
        data |-> [k \in Range(NumericColumns(ds)) |->
                    [v \in {Spell(labels[i]) : i \in 1..Len(labels)} |->
                       BagOf(SelectSeq(Column(RowsOf(ds.rows, experiment_col, Unspell(v)), k),
                                       LAMBDA x : ~IsNaN(x)))]]]

\* what the statistics libraries may return in one run of analyze_experiment
ExperimentStats(view, kpi_columns) ==
    IF Len(view.variants) < 2 THEN {<<>>}
    ELSE LET cv == identify_control_variant(view.variants)
             tvs == {v \in Range(view.variants) : v # cv}
             K == Range(kpi_columns) \cap DOMAIN view.data
             Choices(k, v) == StatChoices(view.data[k][cv], view.data[k][v])
             U == UNION {Choices(k, v) : k \in K, v \in tvs}
         IN {st \in [K -> [tvs -> U]] : \A k \in K, v \in tvs : st[k][v] \in Choices(k, v)}

\* the default of alpha and of min_size, which analyze_csv leaves in place
DefaultAlpha == Num(5, 100)
DefaultMinSize == 5

\* what analyze_trends and detect_change_points read of df: the rows (date,
\* value) of each numeric column
TrendView(ds, date_col) ==
    [k \in Range(NumericColumns(ds)) |->
       [i \in 1..Len(ds.rows) |-> [date |-> ds.rows[i][date_col], val |-> ds.rows[i][k]]]]

priority_order(p) == IF p = "high" THEN 0 ELSE IF p = "medium" THEN 1 ELSE 2

\* generate_next_checks (insights.py); a text is the tuple of its fixed part and
\* the values formatted into it
generate_next_checks(report) ==
    LET from_change_points ==
           Map(Prefix(report.change_points, 3),
               LAMBDA cp : [question |-> <<"What caused the change", cp.kpi, cp.date>>,
                            priority |-> IF FGt(FAbs(cp.delta_pct), Int2F(30))
                                         THEN "high" ELSE "medium",
                            why |-> <<"Investigate change", FAbs(cp.delta_pct), cp.kpi>>])
        from_drivers ==
           Map(SelectSeq(Prefix(report.segment_drivers, 3),
                         LAMBDA d : FGt(FAbs(d.contribution_pct), Int2F(20))),
               LAMBDA d : [question |-> <<"Why is the segment contributing", SegmentName(d),
                                          d.contribution_pct, d.kpi>>,
                           priority |-> "high",
                           why |-> <<"Major contributor", d.kpi>>])
        from_experiments ==
           Map(SelectSeq(report.experiment_results, LAMBDA e : e.warnings # <<>>),
               LAMBDA e : [question |-> <<"Are the warnings valid concerns", e.kpi>>,
                           priority |-> IF e.significant THEN "high" ELSE "medium",
                           why |-> e.warnings])
        from_anomalies ==
           Map(SelectSeq(Prefix(report.anomalies, 3), LAMBDA a : a.severity = "high"),
               LAMBDA a : [question |-> <<"How should we handle", a.description>>,
                           priority |-> "high",
                           why |-> <<"Data quality issue", a.severity>>])
    IN Prefix(StableSort(from_change_points \o from_drivers \o from_experiments
                         \o from_anomalies,
                         LAMBDA p : priority_order(p[1].priority) < priority_order(p[2].priority)),
              10)

\* metadata.get("date_column"): the column ingestion parsed as the date
DateColumnOf(ds) == IF "date" \in Range(ds.columns) THEN "date" ELSE None

\* Anomaly(type=issue.get("type", "data_quality"), severity=..., description=...,
\* affected_column=issue.get("column")), cli.py lines 115-124
AnomalyOf(issue) ==
    [type |-> issue.type, severity |-> issue.severity, description |-> issue.description,
     affected_column |-> issue.column]

\* the element of a set of one: the value of an expression, computed once
The(S) == CHOOSE x \in S : TRUE

\* analyze_csv on the dataset ingestion returns.  llm is how the attempts on the
\* enhancement provider end and llm_summary the summary it returns, stats what
\* the statistics libraries return.  The result is the report and the summary,
\* or raised when a step raises; no step looks for numeric columns
analyze_csv(ds, llm, llm_summary, stats) ==
    LET date_col == DateColumnOf(ds)
        \* lines 100-146: the report of what the engines found
        Finish(built, raised, peeking_warnings) ==
           IF raised \/ Propagates(llm)
           THEN [raised |-> TRUE, report |-> <<>>, exec_summary |-> <<>>,
                 peeking_warnings |-> <<>>]
           ELSE The({[raised |-> FALSE, report |-> <<report>>,
                      exec_summary |-> generate_executive_summary(report, llm, llm_summary),
                      peeking_warnings |-> peeking_warnings] :
                        report \in {[data_profile |-> built.data_profile,
                                     kpis_detected |-> built.kpis_detected,
                                     time_range |-> built.time_range,
                                     overall_trends |-> built.overall_trends,
                                     change_points |-> built.change_points,
                                     experiment_results |-> built.experiment_results,
                                     segment_drivers |-> built.segment_drivers,
                                     anomalies |-> built.anomalies,
                                     hypotheses |-> generate_hypotheses(built, llm),
                                     next_checks |-> generate_next_checks(built),
                                     recommended_decisions |-> generate_decisions(built)]}})
        \* lines 62-98: the engines, run on the KPI and segment columns found
        Engines(df, profile, kpis, experiment_col, segment_cols) ==
           LET kpi_columns == [i \in 1..Len(kpis) |-> Unspell(kpis[i].column_name)]
               timeseries == date_col # None /\ profile.data_mode \in {"timeseries", "both"}
               Built(trends, change_points, experiment, segment_drivers) ==
                  [data_profile |-> profile,
                   kpis_detected |-> kpis,
                   time_range |-> profile.time_range,
                   overall_trends |-> trends,
                   change_points |-> change_points,
                   experiment_results |-> experiment.results,
                   segment_drivers |-> segment_drivers,
                   anomalies |-> Map(profile.quality_issues, AnomalyOf)]
           IN The({The({Finish(built, experiment.raised, peeking_warnings) :
                          built \in {Built(trends, change_points, experiment,
                                           segment_drivers)}}) :
                     trends \in {IF timeseries
                                 THEN analyze_trends(TrendView(ds, date_col), kpi_columns)
                                 ELSE <<>>},
                     change_points \in {IF timeseries
                                        THEN detect_change_points(TrendView(ds, date_col),
                                                                  kpi_columns, DefaultMinSize)
                                        ELSE <<>>},
                     segment_drivers \in {IF segment_cols # <<>>
                                          THEN analyze_segment_drivers(ds.rows, segment_cols,
                                                                       kpi_columns, date_col,
                                                                       DefaultTopN)
                                          ELSE <<>>},
                     experiment \in {IF experiment_col # NoneOf
                                     THEN LET view == ExperimentView(ds, Unspell(experiment_col[1]))
                                          IN analyze_experiment(view.variants, view.data,
                                                                kpi_columns, DefaultAlpha, stats)
                                     ELSE [raised |-> FALSE, results |-> <<>>]},
                     peeking_warnings \in {IF experiment_col # NoneOf /\ date_col # None
                                           THEN detect_peeking_risk(ds, date_col,
                                                                    Unspell(experiment_col[1]))
                                           ELSE <<>>}})
        \* lines 46-60 and 78, 90: the profile and the columns to analyse
        Detected(df, profile) ==
           The({Engines(df, profile, kpis, experiment_col, segment_cols) :
                  kpis \in {detect_kpis(df, profile.columns)},
                  experiment_col \in {detect_experiment_column(df)},
                  segment_cols \in {Map(detect_segment_columns(df, profile.columns), Unspell)}})
    IN The({Detected(df, profile) :
              df \in {FrameOf(ds)},
              profile \in {profile_data(ds, date_col, ValidationIssues(ds))}})

\* detect_event_data_format (data_transformer.py) on a dataset whose date column
\* is parsed: a timestamp of its own on more than four rows in five, or an event
\* column together with a user column
event_keywords ==
    <<<<"e", "v", "e", "n", "t">>, <<"a", "c", "t", "i", "o", "n">>,
      <<"a", "c", "t", "i", "v", "i", "t", "y">>>>

user_keywords ==
    <<<<"u", "s", "e", "r">>, <<"c", "u", "s", "t", "o", "m", "e", "r">>,
      <<"v", "i", "s", "i", "t", "o", "r">>, <<"u", "i", "d">>>>

detect_event_data_format(df) ==
    LET dated == SelectSeqIdx(df, LAMBDA s : s.dtype = "datetime", 1)
    IN \/ /\ dated # <<>>
          /\ nunique(df[dated[1]]) * 10 > 8 * Len(df[dated[1]].values)
       \/ /\ \E i \in 1..Len(df) : AnyIn(event_keywords, df[i].name)
          /\ \E i \in 1..Len(df) : AnyIn(user_keywords, df[i].name)

\* auto_transform_data on an upload that is not event-level data, which it keeps
\* as it is: it raises ValueError when no column is numeric
auto_transform_data(ds) ==
    [raised |-> NumericColumns(ds) = <<>>,
     error |-> <<"No numeric columns found in transformed data">>,
     df |-> ds]

\* analyze_metrics (api.py): the response of POST /analyze
analyze_metrics(is_csv, auto_transform, ds, llm, llm_summary, stats) ==
    LET transformed == auto_transform_data(ds)
        transformation_failed == auto_transform /\ transformed.raised
        \* the file analysed is the transformed one, or the upload when the
        \* transformation is off or fails
        analysis == IF auto_transform /\ ~transformed.raised THEN transformed.df ELSE ds
    IN IF ~is_csv
       THEN [status |-> 400, detail |-> <<"Only CSV files are supported">>,
             report |-> <<>>, transformation_failed |-> FALSE]
       ELSE The({IF result.raised
                 THEN [status |-> 500, detail |-> <<"Analysis failed">>,
                       report |-> <<>>, transformation_failed |-> transformation_failed]
                 ELSE [status |-> 200, detail |-> <<>>,
                       report |-> result.report,
                       transformation_failed |-> transformation_failed] :
                   result \in {analyze_csv(analysis, llm, llm_summary, stats)}})

-----------------------------------------------------------------------------
(* The pipeline: the inputs the model draws from *)

Dataset(columns, rows) == [columns |-> columns, rows |-> rows]

\* a text column of the labels given
Labelled(labels) == [i \in 1..Len(labels) |-> [seg |-> labels[i]]]

\* datasets without a numeric column: labels only (some mostly missing), two
\* text columns, dated labels, and experiment arms without a metric
TextDatasets ==
    {Dataset(<<"seg">>, Labelled(labels)) :
        labels \in {<<"A", "B">>, <<"A", "A", "B", "B">>, <<"A", "B", Null, Null, Null>>,
                    <<"A", Null, Null, Null, Null, Null>>, <<"control", "test", "control", "test">>}}
    \cup {Dataset(<<"seg", "region">>,
                  <<[seg |-> "A", region |-> "north"], [seg |-> "B", region |-> "south"],
                    [seg |-> "A", region |-> "north"], [seg |-> "B", region |-> "east"]>>),
          Dataset(<<"date", "seg">>,
                  <<[date |-> 1, seg |-> "A"], [date |-> 1, seg |-> "B"],
                    [date |-> 2, seg |-> "A"], [date |-> 2, seg |-> "B"]>>),
          Dataset(<<"variant", "seg">>,
                  <<[variant |-> "control", seg |-> "A"], [variant |-> "test", seg |-> "B"],
                    [variant |-> "control", seg |-> "B"], [variant |-> "test", seg |-> "A"]>>),
          Dataset(<<"date", "variant">>,
                  <<[date |-> 1, variant |-> "control"], [date |-> 1, variant |-> "test"],
                    [date |-> 9, variant |-> "control"], [date |-> 9, variant |-> "test"]>>)}

\* a dataset of twelve days, two rows a day, with a shift of the KPI on the seventh
ShiftedDf ==
    [i \in 1..24 |->
       LET day == (i + 1) \div 2
       IN DatedRow(day, IF i % 2 = 1 THEN "A" ELSE "B",
                   (IF day <= 6 THEN 10 ELSE 30) + (IF day % 2 = 0 THEN 2 ELSE 0))]

\* the rows of an experiment: the arm of each label, value by value
ArmRow(label, v) == [variant |-> label, kpi |-> Int2F(v)]

ExperimentDfs ==
    {<<ArmRow("control", 10), ArmRow("test", 11), ArmRow("control", 12), ArmRow("test", 15)>>,
     <<ArmRow("control", 0), ArmRow("test", 1), ArmRow("control", 0), ArmRow("test", 3)>>,
     <<ArmRow("test", 5), ArmRow("control", 5), ArmRow("test", 5), ArmRow("control", 5)>>,
     <<ArmRow("A", 4), ArmRow("B", 6), ArmRow("C", 9), ArmRow("A", 6), ArmRow("B", 6),
       ArmRow("C", 7)>>,
     <<ArmRow("control", 10), ArmRow("control", 12)>>}

\* an experiment whose uplift is below 0.005 percent
TinyUpliftDf ==
    <<ArmRow("control", 20001), ArmRow("test", 20002), ArmRow("control", 20001),
      ArmRow("test", 20002)>>

\* an experiment on a KPI of negative values (a balance, a margin) whose test arm
\* is twice as far below zero as its control arm
NegativeKpiDf ==
    <<ArmRow("control", -10), ArmRow("test", -20), ArmRow("control", -12),
      ArmRow("test", -24)>>

DatedArmRow(date, label, v) == [date |-> date, variant |-> label, kpi |-> Int2F(v)]

DatedExperimentDf ==
    <<DatedArmRow(1, "control", 10), DatedArmRow(1, "test", 14), DatedArmRow(2, "control", 12),
      DatedArmRow(2, "test", 12), DatedArmRow(9, "control", 11), DatedArmRow(9, "test", 16)>>

\* datasets with numeric columns
MetricDatasets ==
    {Dataset(<<"seg", "kpi">>, df) :
        df \in {f \in StaticFamily : Len(f) = 4} \cup {NullsDf, AllNaNDf, ZeroMeanDf}}
    \cup {Dataset(<<"seg", "region", "kpi", "other">>, WideDf)}
    \cup {Dataset(<<"date", "seg", "kpi">>, df) : df \in DatedDfs \cup {ShiftedDf}}
    \cup {Dataset(<<"variant", "kpi">>, df) : df \in ExperimentDfs \cup {TinyUpliftDf, NegativeKpiDf}}
    \cup {Dataset(<<"date", "variant", "kpi">>, DatedExperimentDf)}

PipelineDatasets == TextDatasets \cup MetricDatasets

\* the uploads auto_transform_data keeps as they are
EndpointDatasets == {ds \in PipelineDatasets : ~detect_event_data_format(FrameOf(ds))}

\* how the attempts on the enhancement provider end in a run of the pipeline
PipelineLlm == {"off", "unavailable", "available_raised", "enhanced"}

\* the outcomes of the statistics libraries in a run on ds
StatsOf(ds) ==
    LET df == FrameOf(ds)
        experiment_col == detect_experiment_column(df)
        kpis == detect_kpis(df, ColumnProfiles(df))
    IN IF experiment_col = NoneOf THEN {<<>>}
       ELSE ExperimentStats(ExperimentView(ds, Unspell(experiment_col[1])),
                            [i \in 1..Len(kpis) |-> Unspell(kpis[i].column_name)])

-----------------------------------------------------------------------------
(* The pipeline: actions *)

AnalyzeCsv ==
    /\ call = NoCall
    /\ \E ds \in PipelineDatasets, llm \in PipelineLlm :
          \E stats \in StatsOf(ds),
             llm_summary \in (IF llm = "enhanced" THEN LlmSummaries ELSE {<<>>}) :
             \E r \in {analyze_csv(ds, llm, llm_summary, stats)} :
                call' = [op |-> "analyze_csv", dataset |-> ds, llm |-> llm,
                         raised |-> r.raised, report |-> r.report,
                         exec_summary |-> r.exec_summary,
                         peeking_warnings |-> r.peeking_warnings]

AnalyzeMetrics ==
    /\ call = NoCall
    /\ \E ds \in EndpointDatasets, llm \in PipelineLlm, is_csv \in BOOLEAN,
          auto_transform \in BOOLEAN :
          \E stats \in StatsOf(ds),
             llm_summary \in (IF llm = "enhanced" THEN LlmSummaries ELSE {<<>>}) :
             \E r \in {analyze_metrics(is_csv, auto_transform, ds, llm, llm_summary, stats)} :
                call' = [op |-> "analyze_metrics", dataset |-> ds, llm |-> llm,
                         is_csv |-> is_csv, auto_transform |-> auto_transform,
                         raised |-> r.status # 200, status |-> r.status,
                         detail |-> r.detail, report |-> r.report,
                         transformation_failed |-> r.transformation_failed]

NextPipeline == AnalyzeCsv \/ AnalyzeMetrics

SpecPipeline == Init /\ [][NextPipeline]_vars

-----------------------------------------------------------------------------
(* SegmentDecompositionEngine: calls of calculate_temporal_contribution *)

\* the most rows of a dated dataset
MaxTemporalRows == 5

TemporalLabels == {"A", "B"}
TemporalValues == {10, 20}

\* a row a day from day 1 on, each of a segment and a value
DailyDfs ==
    UNION {{[i \in 1..n |-> DatedRow(i, p[i][1], p[i][2])] :
               p \in [1..n -> TemporalLabels \X TemporalValues]} : n \in 4..MaxTemporalRows}

\* a change too small for six decimals, a zero KPI, missing values, three
\* segment values of which one is there on one side of the split only, and
\* two datasets in which the share of the low segment value grows
TinyDf ==
    <<[date |-> 1, seg |-> "A", kpi |-> Zero], [date |-> 2, seg |-> "B", kpi |-> Zero],
      [date |-> 3, seg |-> "A", kpi |-> Num(1, 1000000)], [date |-> 4, seg |-> "B", kpi |-> Zero]>>

SparseDfs ==
    {TinyDf,
     <<DatedRow(1, "A", 0), DatedRow(2, "B", 0), DatedRow(3, "A", 10), DatedRow(4, "B", 0)>>,
     <<DatedRow(1, "A", 10), [date |-> 2, seg |-> "A", kpi |-> NaN], DatedRow(3, "B", 20),
       DatedRow(4, "A", 30), DatedRow(5, "B", 20), [date |-> 6, seg |-> "B", kpi |-> NaN]>>,
     <<DatedRow(1, "A", 10), DatedRow(2, "B", 20), DatedRow(3, "C", 5), DatedRow(4, "A", 30),
       DatedRow(5, "B", 20), [date |-> 6, seg |-> Null, kpi |-> Int2F(7)]>>,
     <<DatedRow(1, "A", 10), DatedRow(2, "B", 20), DatedRow(3, "C", 5), DatedRow(4, "A", 4),
       DatedRow(5, "B", 20), DatedRow(6, "C", 5)>>,
     <<DatedRow(1, "A", 0), DatedRow(2, "B", 100), DatedRow(3, "A", 10), DatedRow(4, "A", 10),
       DatedRow(5, "B", 100)>>,
     <<DatedRow(1, "A", 0), DatedRow(2, "B", 100), DatedRow(3, "B", 100), DatedRow(4, "A", 10),
       DatedRow(5, "A", 10), DatedRow(6, "B", 100)>>}

\* the rows as they come: in date order, or the other way round
Reversed(s) == [i \in 1..Len(s) |-> s[Len(s) + 1 - i]]

\* a row of each segment value a day
SharedDateDfs ==
    {<<DatedRow(1, "A", 10), DatedRow(1, "B", 10), DatedRow(2, "A", 10), DatedRow(2, "B", 10),
       DatedRow(3, "A", 20), DatedRow(3, "B", 10)>>,
     <<DatedRow(1, "A", 10), DatedRow(1, "B", 20), DatedRow(2, "A", 30), DatedRow(2, "B", 20)>>}

TemporalDfs ==
    LET dfs == DailyDfs \cup SparseDfs \cup SharedDateDfs
    IN dfs \cup {Reversed(df) : df \in dfs}

CalculateTemporalContribution ==
    /\ call = NoCall
    /\ \E df \in TemporalDfs :
          call' = [op |-> "calculate_temporal_contribution", df |-> df,
                   segment_col |-> "seg", kpi |-> "kpi", date_col |-> "date",
                   before_df |-> TemporalSplit(df, "date").before_df,
                   after_df |-> TemporalSplit(df, "date").after_df,
                   drivers |-> calculate_temporal_contribution(df, "seg", "kpi", "date")]

CalculateStaticContribution ==
    /\ call = NoCall
    /\ \E df \in StaticFamily \cup {NullsDf, AllNaNDf, ZeroMeanDf} :
          call' = [op |-> "calculate_static_contribution", df |-> df,
                   segment_col |-> "seg", kpi |-> "kpi",
                   contributions |-> StaticContributions(df, "seg", "kpi"),
                   drivers |-> calculate_static_contribution(df, "seg", "kpi")]

NextDecomposition == CalculateTemporalContribution \/ CalculateStaticContribution

SpecDecomposition == Init /\ [][NextDecomposition]_vars

-----------------------------------------------------------------------------
(* The caller's dataset across calls of the core operations.  The frames a     *)
(* call works on are the objects of a heap, a sequence of datasets by object    *)
(* number: the caller's dataframe is object 1, and a copy, a sorted frame or a  *)
(* selection is a new object.                                                   *)

Caller == 1

\* df.copy(), and any expression that builds a new frame: a new object
CopyFrame(heap, id) == heap \o <<heap[id]>>

\* df.sort_values(col), without inplace: the rows in the order of col, as a new
\* object
SortValues(heap, id, col) ==
    heap \o <<[heap[id] EXCEPT !.rows = StableSort(@, LAMBDA p : p[1][col] < p[2][col])]>>

\* df[col] = values: the object itself gets the column
SetItem(heap, id, col, values) ==
    [heap EXCEPT ![id] =
        [columns |-> IF col \in Range(@.columns) THEN @.columns ELSE Append(@.columns, col),
         rows |-> [i \in 1..Len(@.rows) |-> (col :> values[i]) @@ @.rows[i]]]]

\* the frames of analyze_trends and of detect_change_points:
\* df_sorted = df.sort_values(date_col).copy()
SortedCopyFrames(heap, date_col) ==
    LET sorted == SortValues(heap, Caller, date_col)
    IN CopyFrame(sorted, Len(sorted))

\* the frames of calculate_temporal_contribution: df_sorted = df.sort_values(date_col)
DecompositionFrames(heap, date_col) ==
    IF date_col # None /\ date_col \in Range(heap[Caller].columns)
    THEN SortValues(heap, Caller, date_col)
    ELSE heap

\* a plausible slip: the weekday column is set on df itself
PeekingFrames_nocopy(heap, date_col) ==
    IF date_col = None \/ heap[Caller].rows = <<>> THEN heap
    ELSE SetItem(heap, Caller, "day_of_week",
                 [i \in 1..Len(heap[Caller].rows) |-> heap[Caller].rows[i][date_col] % 7])

\* the frames of detect_peeking_risk: df_copy = df.copy() and
\* df_copy['day_of_week'] = ..., when there is a date
PeekingFrames(heap, date_col) ==
    IF date_col = None \/ heap[Caller].rows = <<>> THEN heap
    ELSE LET copied == CopyFrame(heap, Caller)
         IN SetItem(copied, Len(copied), "day_of_week",
                    [i \in 1..Len(copied[Caller].rows) |-> copied[Caller].rows[i][date_col] % 7])

\* the smallest segment find_anomalous_segments looks at, and its default threshold
MinSegmentRows == 10
DefaultThreshold == 2

\* the body of the loops of find_anomalous_segments for one KPI, one segment
\* column and the segment values vs.  The z-score is a quotient by a root: its
\* square is compared, and the entry holds the deviation in its place
RECURSIVE AnomalousSegmentsOf(_, _, _, _)
AnomalousSegmentsOf(df, seg_col, kpi, vs) ==
    IF vs = <<>> THEN <<>>
    ELSE LET seg_value == Head(vs)
             rest == AnomalousSegmentsOf(df, seg_col, kpi, Tail(vs))
             valued == SelectSeq(Column(df, kpi), LAMBDA x : ~IsNaN(x))
             overall_mean == SeqMean(valued)
             overall_std2 == SampVar(valued)
             seg_data == SelectSeq(Column(RowsOf(df, seg_col, seg_value), kpi),
                                   LAMBDA x : ~IsNaN(x))
             seg_mean == SeqMean(seg_data)
             deviation == FSub(seg_mean, overall_mean)
             z_score2 == FDiv(FMul(deviation, deviation), overall_std2)
         IN IF seg_value = Null THEN rest
            ELSE IF Len(seg_data) < MinSegmentRows THEN rest
            ELSE IF FGt(z_score2, Int2F(DefaultThreshold * DefaultThreshold))
            THEN <<[segment_column |-> seg_col, segment_value |-> seg_value, kpi |-> kpi,
                    segment_mean |-> FRound(seg_mean, 1000000),
                    overall_mean |-> FRound(overall_mean, 1000000),
                    z_score2 |-> z_score2,
                    segment_size |-> Len(seg_data),
                    direction |-> IF FGt(deviation, Zero) THEN "above" ELSE "below"]>>
                 \o rest
            ELSE rest

RECURSIVE AnomalousSegmentsOfColumns(_, _, _)
AnomalousSegmentsOfColumns(df, segment_columns, kpi) ==
    IF segment_columns = <<>> THEN <<>>
    ELSE LET rest == AnomalousSegmentsOfColumns(df, Tail(segment_columns), kpi)
         IN IF Head(segment_columns) \notin Columns(df) THEN rest
            ELSE AnomalousSegmentsOf(df, Head(segment_columns), kpi,
                                     Unique(Column(df, Head(segment_columns)))) \o rest

RECURSIVE AnomalousSegmentsOfKpis(_, _, _)
AnomalousSegmentsOfKpis(df, segment_columns, kpi_columns) ==
    IF kpi_columns = <<>> THEN <<>>
    ELSE LET kpi == Head(kpi_columns)
             rest == AnomalousSegmentsOfKpis(df, segment_columns, Tail(kpi_columns))
         IN IF kpi \notin Columns(df) THEN rest
            ELSE IF IsZero(SampVar(SelectSeq(Column(df, kpi), LAMBDA x : ~IsNaN(x)))) THEN rest
            ELSE AnomalousSegmentsOfColumns(df, segment_columns, kpi) \o rest

\* find_anomalous_segments: the entries by falling size of the z-score, twenty at most
find_anomalous_segments(df, segment_columns, kpi_columns) ==
    Prefix(StableSort(AnomalousSegmentsOfKpis(df, segment_columns, kpi_columns),
                      LAMBDA p : FGt(p[1].z_score2, p[2].z_score2)),
           20)

\* the KPI columns and the segment columns analyze_csv finds in ds
KpiColumnsOf(ds) ==
    LET kpis == detect_kpis(FrameOf(ds), ColumnProfiles(FrameOf(ds)))
    IN [i \in 1..Len(kpis) |-> Unspell(kpis[i].column_name)]

SegmentColumnsOf(ds) ==
    Map(detect_segment_columns(FrameOf(ds), ColumnProfiles(FrameOf(ds))), Unspell)

\* the most calls of a session
MaxCalls == 3

\* the datasets a caller holds
SessionDatasets ==
    {ds \in TextDatasets : Len(ds.rows) = 4}
    \cup {Dataset(<<"seg", "kpi">>, df) : df \in {NullsDf, ZeroMeanDf}}
    \cup {Dataset(<<"seg", "region", "kpi", "other">>, WideDf)}
    \cup {Dataset(<<"date", "seg", "kpi">>, df) : df \in DatedDfs \cup {ShiftedDf}}
    \cup {Dataset(<<"variant", "kpi">>, df) : df \in ExperimentDfs}
    \cup {Dataset(<<"date", "variant", "kpi">>, df) :
             df \in {DatedExperimentDf, Reversed(DatedExperimentDf)}}

\* the caller's dataset after a call that leaves the heap `heap`, and the record
\* of the session
AfterCall(name, heap, ret) ==
    [op |-> "session", original |-> call.original, df |-> heap[Caller],
     calls |-> call.calls + 1, ops |-> Append(call.ops, name), ret |-> ret]

InSession == call.op = "session" /\ call.calls < MaxCalls

\* the caller gets a dataset from ingestion
Ingest ==
    /\ call = NoCall
    /\ \E ds \in SessionDatasets :
          call' = [op |-> "session", original |-> ds, df |-> ds, calls |-> 0,
                   ops |-> <<>>, ret |-> <<>>]

ProfileData ==
    /\ InSession
    /\ call' = AfterCall("profile_data", <<call.df>>,
                         profile_data(call.df, DateColumnOf(call.df), ValidationIssues(call.df)))

SessionDetectKpis ==
    /\ InSession
    /\ call' = AfterCall("detect_kpis", <<call.df>>,
                         detect_kpis(FrameOf(call.df), ColumnProfiles(FrameOf(call.df))))

\* analyze_trends and detect_change_points are called on a dataset with a date
SessionAnalyzeTrends ==
    /\ InSession
    /\ DateColumnOf(call.df) # None
    /\ call' = AfterCall("analyze_trends", SortedCopyFrames(<<call.df>>, DateColumnOf(call.df)),
                         analyze_trends(TrendView(call.df, DateColumnOf(call.df)),
                                        KpiColumnsOf(call.df)))

SessionDetectChangePoints ==
    /\ InSession
    /\ DateColumnOf(call.df) # None
    /\ call' = AfterCall("detect_change_points",
                         SortedCopyFrames(<<call.df>>, DateColumnOf(call.df)),
                         detect_change_points(TrendView(call.df, DateColumnOf(call.df)),
                                              KpiColumnsOf(call.df), DefaultMinSize))

\* analyze_experiment and detect_peeking_risk are called on a dataset with an
\* experiment column; the selections analyze_experiment takes are new objects
SessionAnalyzeExperiment ==
    /\ InSession
    /\ detect_experiment_column(FrameOf(call.df)) # NoneOf
    /\ \E stats \in StatsOf(call.df) :
          LET view == ExperimentView(call.df,
                                     Unspell(detect_experiment_column(FrameOf(call.df))[1]))
          IN call' = AfterCall("analyze_experiment", <<call.df>>,
                               analyze_experiment(view.variants, view.data,
                                                  KpiColumnsOf(call.df), DefaultAlpha, stats))

DetectPeekingRisk ==
    /\ InSession
    /\ detect_experiment_column(FrameOf(call.df)) # NoneOf
    /\ call' = AfterCall("detect_peeking_risk",
                         PeekingFrames(<<call.df>>, DateColumnOf(call.df)),
                         detect_peeking_risk(call.df, DateColumnOf(call.df),
                                             Unspell(detect_experiment_column(FrameOf(call.df))[1])))

SessionAnalyzeSegmentDrivers ==
    /\ InSession
    /\ call' = AfterCall("analyze_segment_drivers",
                         DecompositionFrames(<<call.df>>, DateColumnOf(call.df)),
                         analyze_segment_drivers(call.df.rows, SegmentColumnsOf(call.df),
                                                 KpiColumnsOf(call.df), DateColumnOf(call.df),
                                                 DefaultTopN))

FindAnomalousSegments ==
    /\ InSession
    /\ call' = AfterCall("find_anomalous_segments", <<call.df>>,
                         find_anomalous_segments(call.df.rows, SegmentColumnsOf(call.df),
                                                 KpiColumnsOf(call.df)))

NextSession ==
    \/ Ingest
    \/ ProfileData
    \/ SessionDetectKpis
    \/ SessionAnalyzeTrends
    \/ SessionDetectChangePoints
    \/ SessionAnalyzeExperiment
    \/ DetectPeekingRisk
    \/ SessionAnalyzeSegmentDrivers
    \/ FindAnomalousSegments

SpecSession == Init /\ [][NextSession]_vars

-----------------------------------------------------------------------------
(* Properties of the ExperimentEngine *)

IsExp == call.op = "analyze_experiment" /\ ~call.raised
IsWarn == call.op = "generate_experiment_warnings"
IsIcv == call.op = "identify_control_variant"

HasWarning(r, w) == \E i \in 1..Len(r.warnings) : r.warnings[i] = w

StrictSameSign(a, b) ==
    \/ FGt(a, Zero) /\ FGt(b, Zero)
    \/ FLt(a, Zero) /\ FLt(b, Zero)

\* C1: in every ExperimentResult that analyze_experiment emits with significance
\* level alpha, significant = true implies that the stored p_value is below alpha
\* and that the stored ci_lower and ci_upper are both > 0 or both < 0.
C1_SignificantImpliesStoredPAndCI ==
    IsExp =>
        \A i \in 1..Len(call.results) :
            LET r == call.results[i]
            IN r.significant =>
                  /\ FLt(r.p_value, call.alpha)
                  /\ StrictSameSign(r.ci_lower, r.ci_upper)

\* The relative stdev and the stdev ratio with a zero denominator counting as 0
RelStdAboveOneZeroAsZero(std2, mean) ==
    IsNum(std2) /\ IsNum(mean) /\ FGt(mean, Zero) /\ FGt(std2, FMul(mean, mean))
StdRatioAboveTwoZeroAsZero(c2, t2) ==
    /\ IsNum(c2) /\ IsNum(t2)
    /\ LET hi == IF FGt(c2, t2) THEN c2 ELSE t2
           lo == IF FGt(c2, t2) THEN t2 ELSE c2
       IN FGt(lo, Zero) /\ FGt(hi, FMul(Int2F(4), lo))

\* C6: generate_experiment_warnings called with both counts positive raises no
\* error, emits the high-variance warning only if stdev/mean > 1 on an arm with a
\* zero mean counting as ratio 0, and emits the variance-difference warning only
\* if max stdev / min stdev > 2 with a zero smaller stdev counting as ratio 0.
C6_ZeroDenominatorCountsAsZero ==
    (IsWarn /\ call.control_count > 0 /\ call.test_count > 0) =>
        /\ ~call.raised
        /\ HasWarning(call, "high_variance") =>
              \/ RelStdAboveOneZeroAsZero(call.control_std2, call.control_mean)
              \/ RelStdAboveOneZeroAsZero(call.test_std2, call.test_mean)
        /\ HasWarning(call, "variance_difference") =>
              StdRatioAboveTwoZeroAsZero(call.control_std2, call.test_std2)

\* C9: an experiment result carries the unbalanced-sample warning if and only if
\* max(control_count, test_count) / min(control_count, test_count) > 2, whatever
\* other warnings it carries; the same holds of every direct call that returns.
C9_UnbalancedIffRatioAboveTwo ==
    /\ IsExp =>
          \A i \in 1..Len(call.results) :
              LET r == call.results[i]
              IN HasWarning(r, "unbalanced") <=>
                    MaxI(r.control_count, r.test_count) > 2 * MinI(r.control_count, r.test_count)
    /\ (IsWarn /\ ~call.raised) =>
          (HasWarning(call, "unbalanced") <=>
              MaxI(call.control_count, call.test_count)
                 > 2 * MinI(call.control_count, call.test_count))

\* C9 witness: a result with control N = 300 and test N = 1000 that carries the
\* unbalanced warning together with the high-variance and variance-difference ones
C9_Witness ==
    /\ IsExp
    /\ \E i \in 1..Len(call.results) :
          LET r == call.results[i]
          IN /\ r.control_count = 300 /\ r.test_count = 1000
             /\ HasWarning(r, "unbalanced")
             /\ HasWarning(r, "high_variance")
             /\ HasWarning(r, "variance_difference")

\* The labels of vs that lowercase to keyword kw
ExactMatches(vs, kw) == {vs[i] : i \in {j \in 1..Len(vs) : LowerStr(vs[j]) = kw}}
\* The labels keyword priority selects: those of the first keyword, in the order
\* control, baseline, original, a, that some label lowercases to
RECURSIVE PriorityMatches(_, _)
PriorityMatches(vs, kws) ==
    IF kws = <<>> THEN {}
    ELSE IF ExactMatches(vs, Head(kws)) # {} THEN ExactMatches(vs, Head(kws))
    ELSE PriorityMatches(vs, Tail(kws))

\* C10: identify_control_variant returns the label that lowercases to "control"
\* if there is one, otherwise one that lowercases to "baseline", then "original",
\* then "a", wherever the other labels stand in the list.
C10_ControlByKeywordPriority ==
    (IsIcv /\ PriorityMatches(call.variants, control_keywords) # {}) =>
        call.ret \in PriorityMatches(call.variants, control_keywords)

-----------------------------------------------------------------------------
(* Properties of the TrendEngine *)

IsDir == call.op = "determine_direction"
IsTrends == call.op = "analyze_trends"
IsCps == call.op = "detect_change_points"

\* the daily series analyze_trends and detect_change_points build for column kpi
DailyOf(kpi) == DailyData(call.data[kpi])

\* C4: determine_direction returns "volatile" exactly when the volatility (the
\* standard deviation of the relative day-over-day changes, times 100) exceeds 20,
\* whatever the overall and the recent percent change are; the direction
\* analyze_trends stores is decided the same way.
C4_VolatileIffVolatilityAbove20 ==
    /\ IsDir => (call.ret = "volatile" <=> VolatilityAbove20(call.series))
    /\ IsTrends =>
          \A i \in 1..Len(call.trends) :
             call.trends[i].direction = "volatile"
                <=> VolatilityAbove20(Vals(DailyOf(call.trends[i].kpi)))

\* a volatile series whose overall and recent change would otherwise read "stable"
C4_Witness ==
    /\ IsDir
    /\ VolatilityAbove20(call.series)
    /\ FLt(FAbs(call.overall_change), Int2F(5))
    /\ FLt(FAbs(call.recent_change), Int2F(5))
    /\ call.ret = "volatile"

\* C20: when the volatility is not above 20, determine_direction is "stable" if
\* |overall| < 5 and |recent| < 5; else "increasing" if recent > 5; else
\* "decreasing" if recent < -5; else "increasing" if overall > 5; else "decreasing"
\* if overall < -5; else "stable".  So the recent change decides whenever
\* |recent| > 5, also against an overall change of the other sign
C20_RecentChangeDecidesFirst ==
    IsDir /\ ~VolatilityAbove20(call.series) =>
        LET overall == call.overall_change
            recent == call.recent_change
            five == Int2F(5)
        IN /\ FLt(FAbs(overall), five) /\ FLt(FAbs(recent), five) => call.ret = "stable"
           /\ FGt(recent, five) => call.ret = "increasing"
           /\ FLt(recent, FNeg(five)) => call.ret = "decreasing"
           /\ FLe(FAbs(recent), five) /\ FGt(overall, five) => call.ret = "increasing"
           /\ FLe(FAbs(recent), five) /\ FLt(overall, FNeg(five)) => call.ret = "decreasing"
           /\ FLe(FAbs(recent), five) /\ FLe(FAbs(overall), five) => call.ret = "stable"

\* a calm series whose recent change is above 5 and whose overall change is below -5
C20_Witness ==
    /\ IsDir
    /\ ~VolatilityAbove20(call.series)
    /\ Len(call.series) > 2
    /\ FGt(call.recent_change, Int2F(5))
    /\ FLt(call.overall_change, Int2F(-5))
    /\ call.ret = "increasing"

-----------------------------------------------------------------------------
(* Properties of the ChangePointEngine *)

\* the columns of kpi_columns the dataset has
KpisOfCall == {k \in DOMAIN call.data : \E i \in 1..Len(call.kpi_columns) : call.kpi_columns[i] = k}

\* a change point is reported for column kpi at position j (0-based) of its daily series
ReportedAt(daily, kpi, j) ==
    \E i \in 1..Len(call.change_points) :
       /\ call.change_points[i].kpi = kpi
       /\ call.change_points[i].date = daily[j + 1].date

\* the position (0-based) of a reported change point in the daily series of its column
PosOf(daily, cp) == CHOOSE j \in 0..(Len(daily) - 1) : daily[j + 1].date = cp.date

WindowBefore(v, M, k) == Slice0(v, IF k < M THEN 0 ELSE k - M, k)
WindowAfter(v, M, k) == Slice0(v, k, k + M)
MeanShift(v, M, k) == FSub(SeqMean(WindowAfter(v, M, k)), SeqMean(WindowBefore(v, M, k)))

\* the mean of the M values from k on differs from the mean of the M values before
\* k by at least twice the standard deviation of the values before k
ShiftOfTwoSigma(v, M, k) ==
    /\ ~IsZero(MeanShift(v, M, k))
    /\ FGe(FMul(MeanShift(v, M, k), MeanShift(v, M, k)),
           FMul(Int2F(4), SampVar(WindowBefore(v, M, k))))

\* C2 as stated: a series whose mean shifts by at least two standard deviations at
\* position k, with k >= 2M and n - k >= 2M, gets a change point reported within M
\* positions of k.
C2_ShiftOfTwoSigmaIsReported ==
    IsCps =>
       \A kpi \in KpisOfCall :
          LET daily == DailyOf(kpi)
              v == Vals(daily)
              M == call.min_size
          IN \A k \in (2 * M)..(Len(v) - 2 * M) :
                ShiftOfTwoSigma(v, M, k) =>
                   \E j \in (k - M)..(k + M) : j < Len(v) /\ ReportedAt(daily, kpi, j)

\* the z-score test at position k: a non-zero standard deviation before k, and a
\* mean shift of more than twice that standard deviation
ShiftAboveTwoSigma(v, M, k) ==
    /\ FGt(PopVar(WindowBefore(v, M, k)), Zero)
    /\ FGt(FMul(MeanShift(v, M, k), MeanShift(v, M, k)),
           FMul(Int2F(4), PopVar(WindowBefore(v, M, k))))

\* the window means around k differ by at least 10 percent of the mean before k
ShiftOfTenPercent(v, M, k) ==
    LET b == SeqMean(WindowBefore(v, M, k))
    IN /\ ~IsZero(b)
       /\ FGe(FMul(Int2F(10), FAbs(MeanShift(v, M, k))), FAbs(b))

\* C2, amended: if at position k (M <= k < n - M) the values before k have a
\* non-zero standard deviation and the window means differ by more than twice
\* that deviation, and the window means differ by at least 10 percent at every
\* position of (k - M, k] that passes the same test, a change point is reported
\* at a position of (k - M, k], unless the result was cut to its ten largest.
C2_ShiftAboveTwoSigmaAndTenPercentIsReported ==
    IsCps =>
       \A kpi \in KpisOfCall :
          LET daily == DailyOf(kpi)
              v == Vals(daily)
              M == call.min_size
          IN \A k \in M..(Len(v) - M - 1) :
                (/\ ShiftAboveTwoSigma(v, M, k)
                 /\ \A j \in (k - M + 1)..k :
                       (j >= M /\ ShiftAboveTwoSigma(v, M, j)) => ShiftOfTenPercent(v, M, j))
                => \/ \E j \in (k - M + 1)..k : ReportedAt(daily, kpi, j)
                   \/ Len(call.change_points) = TopChangePoints

\* a shift of more than two standard deviations and ten percent, reported at k itself
C2_Witness ==
    /\ IsCps
    /\ "kpi" \in KpisOfCall
    /\ call.min_size = 2
    /\ Len(call.change_points) < TopChangePoints
    /\ LET daily == DailyOf("kpi")
           v == Vals(daily)
       IN /\ Len(v) = 8
          /\ ShiftAboveTwoSigma(v, 2, 4)
          /\ ShiftOfTenPercent(v, 2, 4)
          /\ ReportedAt(daily, "kpi", 4)

\* the call is made on a 90-day series of column kpi with a level shift of +20% at day 45
IsShift90 ==
    /\ IsCps
    /\ "kpi" \in KpisOfCall
    /\ call.min_size = 5
    /\ \E a \in BlockNoise, b \in DayNoise : call.data["kpi"] = OneRowPerDay(Shift90(a, b, 20))

\* the coefficient of variation (standard deviation over mean) of a window of
\* positive mean is below limit
CoefVarBelow(w, limit) ==
    /\ FGt(SeqMean(w), Zero)
    /\ FLt(SampVar(w), FMul(FMul(limit, limit), FMul(SeqMean(w), SeqMean(w))))

BothCoefVarBelow(cp, limit) ==
    LET daily == DailyOf(cp.kpi)
        v == Vals(daily)
        j == PosOf(daily, cp)
    IN /\ CoefVarBelow(WindowBefore(v, call.min_size, j), limit)
       /\ CoefVarBelow(WindowAfter(v, call.min_size, j), limit)

\* the window means around the change point differ by more than 30 percent
ShiftAboveThirtyPercent(cp) ==
    LET daily == DailyOf(cp.kpi)
        v == Vals(daily)
        j == PosOf(daily, cp)
        b == SeqMean(WindowBefore(v, call.min_size, j))
    IN FGt(FMul(Int2F(10), FAbs(MeanShift(v, call.min_size, j))), FMul(Int2F(3), FAbs(b)))

NearDay45(cp) == PosOf(DailyOf(cp.kpi), cp) \in 40..50

\* C3 as stated: on a 90-day series with a +20% level shift at day 45, the change
\* point reported for the shift has confidence "high" whenever the coefficient
\* of variation of both windows is below 0.2.
C3_HighWheneverCoefVarBelowFifth ==
    IsShift90 =>
       \A i \in 1..Len(call.change_points) :
          LET cp == call.change_points[i]
          IN (NearDay45(cp) /\ BothCoefVarBelow(cp, Num(2, 10))) => cp.confidence = "high"

\* C3, amended: on a 90-day series with a +20% level shift at day 45, a reported
\* change point has confidence "high" exactly when the coefficient of variation
\* of both windows is below 0.2 and the window means differ by more than 30 percent.
C3_HighIffCoefVarBelowFifthAndShiftAboveThirty ==
    IsShift90 =>
       \A i \in 1..Len(call.change_points) :
          LET cp == call.change_points[i]
          IN cp.confidence = "high"
                <=> (BothCoefVarBelow(cp, Num(2, 10)) /\ ShiftAboveThirtyPercent(cp))

\* such a series with a change point of confidence "high" reported at the shift
C3_Witness ==
    /\ IsShift90
    /\ \E i \in 1..Len(call.change_points) :
          /\ NearDay45(call.change_points[i])
          /\ BothCoefVarBelow(call.change_points[i], Num(2, 10))
          /\ ShiftAboveThirtyPercent(call.change_points[i])
          /\ call.change_points[i].confidence = "high"

-----------------------------------------------------------------------------
(* Properties of the InsightEngine *)

IsHyp == call.op = "generate_hypotheses"
IsDec == call.op = "generate_decisions"
IsSeg == call.op = "analyze_segment_drivers"

\* the call took the rule-based path
RuleBased == IsHyp /\ call.llm # "enhanced" /\ ~call.raised

\* the generated hypotheses of confidence c, in generation order
GeneratedOf(c) == SelectSeq(RuleBasedHypotheses(call.report), LAMBDA h : h.confidence = c)

\* C7: the rule-based output of generate_hypotheses is ordered high, medium, low;
\* it has at most 10 entries; and it is the first ten of: the generated
\* hypotheses of confidence high in generation order, then those of confidence
\* medium, then those of confidence low (so equal confidences keep their
\* generation order and nothing omitted would sort before something retained).
C7_HypothesesSortedStableTopTen ==
    RuleBased =>
       /\ Len(call.hypotheses) <= 10
       /\ \A i, j \in 1..Len(call.hypotheses) :
             i < j => confidence_order(call.hypotheses[i].confidence)
                         <= confidence_order(call.hypotheses[j].confidence)
       /\ call.hypotheses
             = Prefix(GeneratedOf("high") \o GeneratedOf("medium") \o GeneratedOf("low"), 10)

\* more than ten hypotheses are generated, all three confidences among them, and
\* one of confidence high is generated after the tenth
C7_Witness ==
    /\ RuleBased
    /\ Len(RuleBasedHypotheses(call.report)) > 10
    /\ Len(call.hypotheses) = 10
    /\ GeneratedOf("medium") # <<>>
    /\ GeneratedOf("low") # <<>>
    /\ \E i \in 11..Len(RuleBasedHypotheses(call.report)) :
          RuleBasedHypotheses(call.report)[i].confidence = "high"

\* the call is made on a dataset without a date column
StaticCall == call.date_col = None \/ call.date_col \notin Columns(call.df)

\* the segment values of column segment_col that have values of column kpi
ValuesOf(segment_col, kpi) ==
    {v \in Range(Column(call.df, segment_col)) :
        /\ v # Null
        /\ \E i \in 1..Len(call.df) : call.df[i][segment_col] = v /\ ~IsNaN(call.df[i][kpi])}

\* what segment value v contributes to the KPI, in percent of its overall mean:
\* (segment mean - overall mean) * (segment size / rows) / overall mean * 100;
\* nan, which compares with nothing, when the overall mean is zero
ShareOf(segment_col, kpi, v) ==
    LET overall == SkipNaMean(Column(call.df, kpi))
        seg == SelectSeq(Column(RowsOf(call.df, segment_col, v), kpi), LAMBDA x : ~IsNaN(x))
    IN IF IsZero(overall) THEN NaN
       ELSE FDiv(FMul(FMul(FSub(SeqMean(seg), overall), Num(Len(seg), Len(call.df))),
                      Int2F(100)),
                 overall)

Decided(text, segment_col, v) ==
    \E i \in 1..Len(call.decisions) : call.decisions[i].decision = <<text, <<segment_col, v>>>>

ColumnsOfCall(cols) == {c \in Columns(call.df) : \E i \in 1..Len(cols) : cols[i] = c}

\* C8 as stated: on a static dataset, a segment value that accounts for more than
\* 40 percent gets the decision "Focus optimization efforts on <column>=<value>".
C8_StrongSegmentGetsFocusDecision ==
    (IsDec /\ StaticCall) =>
       \A segment_col \in ColumnsOfCall(call.segment_columns) :
          \A kpi \in ColumnsOfCall(call.kpi_columns) :
             \A v \in ValuesOf(segment_col, kpi) :
                FGt(ShareOf(segment_col, kpi, v), Int2F(40))
                   => Decided("Focus optimization efforts on", segment_col, v)

SegmentDecisionsMade ==
    {i \in 1..Len(call.decisions) :
        call.decisions[i].decision[1] \in {"Focus optimization efforts on",
                                           "Address performance issues in"}}

StrongDrivers ==
    {i \in 1..Len(call.report.segment_drivers) :
        FGt(FAbs(call.report.segment_drivers[i].contribution_pct), Int2F(40))}

\* C8, amended: on a static dataset, generate_decisions makes one decision on the
\* segments when the report has a driver with |contribution_pct| > 40, and none
\* otherwise.  It names the first such driver of the report (the drivers stand
\* by decreasing |contribution_abs|): "Focus optimization efforts on" if that
\* driver's contribution_pct is positive, "Address performance issues in" if it
\* is negative.
C8_FirstStrongDriverIsDecidedBySign ==
    (IsDec /\ StaticCall) =>
       IF StrongDrivers = {} THEN SegmentDecisionsMade = {}
       ELSE LET first == CHOOSE i \in StrongDrivers : \A j \in StrongDrivers : i <= j
                driver == call.report.segment_drivers[first]
            IN /\ Cardinality(SegmentDecisionsMade) = 1
               /\ FGt(driver.contribution_pct, Zero)
                     => Decided("Focus optimization efforts on",
                                driver.segment_column, driver.segment_value)
               /\ FLt(driver.contribution_pct, Zero)
                     => Decided("Address performance issues in",
                                driver.segment_column, driver.segment_value)

\* a static dataset whose first strong driver is positive and a second one
\* negative: the decision is to focus on the first
C8_Witness ==
    /\ IsDec
    /\ StaticCall
    /\ Cardinality(StrongDrivers) = 2
    /\ \E i \in StrongDrivers :
          /\ \A j \in StrongDrivers : i <= j
          /\ FGt(call.report.segment_drivers[i].contribution_pct, Zero)
          /\ FGt(ShareOf("seg", "kpi", call.report.segment_drivers[i].segment_value), Int2F(40))
          /\ Decided("Focus optimization efforts on", "seg",
                     call.report.segment_drivers[i].segment_value)

-----------------------------------------------------------------------------
(* Properties of the percent computations *)

NextPercent == AnalyzeExperiment \/ AnalyzeTrends \/ DetectChangePoints \/ AnalyzeSegmentDrivers

SpecPercent == Init /\ [][NextPercent]_vars

\* the control arm of an analyze_experiment call
ControlArm == call.arms[identify_control_variant(call.variants)]

\* uplift_pct is 0 in every result of an experiment whose control mean is 0
UpliftPctZeroOnZeroControl ==
    (IsExp /\ call.results # <<>> /\ IsZero(BagMean(ControlArm))) =>
       \A i \in 1..Len(call.results) : call.results[i].uplift_pct = Zero

\* the window before the recent window of a daily series v
PreviousWindow(v) ==
    Slice0(v, Len(v) - 2 * RecentPeriod(Len(v)), Len(v) - RecentPeriod(Len(v)))

\* overall_change_pct is 0 when the first value is 0; recent_change_pct is 0 when
\* the mean of the window before the recent window is 0
TrendPctZeroOnZeroBase ==
    IsTrends =>
       \A i \in 1..Len(call.trends) :
          LET t == call.trends[i]
              v == Vals(DailyOf(t.kpi))
          IN /\ IsZero(v[1]) => t.overall_change_pct = Zero
             /\ (Len(v) >= 2 * RecentPeriod(Len(v)) /\ IsZero(SeqMean(PreviousWindow(v))))
                   => t.recent_change_pct = Zero

\* delta_pct is 0 at a position whose window before has mean 0, so that no
\* change point is reported there
DeltaPctZeroOnZeroBefore ==
    IsCps =>
       \A kpi \in KpisOfCall :
          LET daily == DailyOf(kpi)
              v == Vals(daily)
              M == call.min_size
          IN \A j \in M..(Len(v) - 1) :
                IsZero(SeqMean(WindowBefore(v, M, j)))
                   => /\ DeltaPctAt(v, M, j) = Zero
                      /\ ~ReportedAt(daily, kpi, j)

\* contribution_pct is 0 for every driver of a KPI whose overall mean is 0
ContributionPctZeroOnZeroMean ==
    (IsSeg /\ StaticCall) =>
       \A i \in 1..Len(call.drivers) :
          IsZero(SkipNaMean(Column(call.df, call.drivers[i].kpi)))
             => call.drivers[i].contribution_pct = Zero

\* C5: the percent computations are exactly 0 on a zero denominator: uplift_pct
\* on a zero control mean, the overall change of a trend on a zero first value,
\* its recent change on a zero mean of the previous window, the delta_pct of a
\* change point on a zero mean before it, and the static contribution_pct on a
\* zero overall mean; none of them ends the call with an error.
C5_PercentOfZeroDenominatorIsZero ==
    /\ UpliftPctZeroOnZeroControl
    /\ TrendPctZeroOnZeroBase
    /\ DeltaPctZeroOnZeroBefore
    /\ ContributionPctZeroOnZeroMean

\* a trend whose first value is 0 and whose previous window has mean 0 though
\* the series moves: both percent changes are 0
C5_Witness ==
    /\ IsTrends
    /\ \E i \in 1..Len(call.trends) :
          LET t == call.trends[i]
              v == Vals(DailyOf(t.kpi))
          IN /\ IsZero(v[1])
             /\ Len(v) >= 2 * RecentPeriod(Len(v))
             /\ IsZero(SeqMean(PreviousWindow(v)))
             /\ \E j \in 1..Len(v) : ~IsZero(v[j])
             /\ ~IsZero(SeqMean(Slice0(v, Len(v) - RecentPeriod(Len(v)), Len(v))))
             /\ t.overall_change_pct = Zero
             /\ t.recent_change_pct = Zero

-----------------------------------------------------------------------------
(* Properties of the ProfilingEngine *)

IsMode == call.op = "detect_data_mode"
IsKpis == call.op = "detect_kpis"

\* the values a column holds, missing ones apart
DistinctValues(series) ==
    {series.values[i] : i \in {j \in 1..Len(series.values) : ~IsMissing(series, series.values[j])}}

\* the name holds one of the seven experiment words
ExperimentWord(name) ==
    \E i \in 1..Len(name), j \in 1..Len(name) :
       SubSeq(name, i, j) \in {experiment_keywords[k] : k \in 1..Len(experiment_keywords)}

\* some column named with an experiment word holds at most ten distinct values
ExperimentLike == \E i \in 1..Len(call.df) :
                     ExperimentWord(call.df[i].name) /\ Cardinality(DistinctValues(call.df[i])) <= 10

DateGiven == call.date_col # NoneOf

\* C11: detect_data_mode returns "both" exactly when a date column is given and a
\* column named with an experiment word has at most 10 distinct values,
\* "timeseries" when only the date column is given, "experiment" when only such a
\* column exists, and "static" when neither holds.
C11_DataModeByDateAndExperimentColumn ==
    IsMode =>
       /\ call.data_mode = "both" <=> (DateGiven /\ ExperimentLike)
       /\ call.data_mode = "timeseries" <=> (DateGiven /\ ~ExperimentLike)
       /\ call.data_mode = "experiment" <=> (~DateGiven /\ ExperimentLike)
       /\ call.data_mode = "static" <=> (~DateGiven /\ ~ExperimentLike)

\* the date column is given and the only experiment-like column holds exactly ten values
C11_Witness ==
    /\ IsMode /\ call.data_mode = "both"
    /\ \A i \in 1..Len(call.df) :
          ExperimentWord(call.df[i].name) => Cardinality(DistinctValues(call.df[i])) = 10
    /\ \E i \in 1..Len(call.df) : ExperimentWord(call.df[i].name)

\* the category the statement gives a name: the first keyword set it matches in the
\* order rate, count, money, duration
CategoryByKeyword(name) ==
    IF AnyIn(rate_keywords, LowerStr(name)) THEN "rate"
    ELSE IF AnyIn(count_keywords, LowerStr(name)) THEN "count"
    ELSE IF AnyIn(money_keywords, LowerStr(name)) THEN "money"
    ELSE IF AnyIn(duration_keywords, LowerStr(name)) THEN "duration"
    ELSE "none"

AllValuesInUnitRange(series) ==
    \A v \in DistinctValues(series) : FGe(v, Zero) /\ FLe(v, Int2F(1))

ColumnNamed(name) == call.df[CHOOSE i \in 1..Len(call.df) : call.df[i].name = name]

\* the profiles are those profile_data builds: they hold min and max
FullProfiles == \A i \in 1..Len(call.column_profiles) : call.column_profiles[i].has_stats

\* C12: detect_kpis gives each numeric non-identifier column the category of the
\* first keyword set its name matches, in the order rate, count, money, duration
\* (so a name matching a count keyword and a money or duration keyword, and no rate
\* keyword, is "count"); a name matching no set is "ratio" if all values of the
\* column lie in [0,1] and "count" otherwise.
C12_KpiCategoryByPriority ==
    (IsKpis /\ FullProfiles) =>
       \A k \in 1..Len(call.kpis) :
          LET kpi == call.kpis[k]
              category == CategoryByKeyword(kpi.column_name)
          IN kpi.kpi_type = IF category # "none" THEN category
                            ELSE IF AllValuesInUnitRange(ColumnNamed(kpi.column_name))
                                 THEN "ratio" ELSE "count"

-----------------------------------------------------------------------------
(* Properties of the enhancement path *)

IsSummary == call.op = "generate_executive_summary"

\* the outcomes in which the provider gives no result: unavailable, the
\* availability check raising, the generator creation raising or returning
\* nothing, the enhancement call raising, returning nothing or an empty result
ProviderFailures ==
    {"unavailable", "available_raised", "create_raised", "no_generator",
     "enhance_raised", "nothing", "empty"}

\* the call returned the rule-based result
ReturnedRuleBased ==
    \/ IsHyp /\ ~call.raised
             /\ call.hypotheses = Prefix(SortByConfidence(RuleBasedHypotheses(call.report)), 10)
    \/ IsSummary /\ ~call.raised /\ call.bullets = RuleBasedSummary(call.report)

\* C13: generate_hypotheses and generate_executive_summary fail open: for every
\* failure of the enhancement provider (unavailable, availability check raising,
\* generator creation raising or returning nothing, enhancement call raising or
\* returning nothing or an empty result) the function returns the rule-based
\* result and no exception reaches the caller.
C13_FailsOpenOnEveryProviderFailure ==
    ((IsHyp \/ IsSummary) /\ call.llm \in ProviderFailures) => ReturnedRuleBased

\* the function waits for a provider that never responds
WaitsForSilentProvider == call.op = "enhancing" /\ call.provider = "silent"

-----------------------------------------------------------------------------
(* Properties of the pipeline *)

IsCsv == call.op = "analyze_csv"
IsEndpoint == call.op = "analyze_metrics"

\* the dataset of the call has no numeric column
NoNumericColumns == (IsCsv \/ IsEndpoint) /\ NumericColumns(call.dataset) = <<>>

\* C15: when the ingested dataset has no numeric column, analyze_csv and the
\* /analyze endpoint end in a raised failure and produce no report
C15_NoNumericColumnsIsAFailure == NoNumericColumns => call.raised /\ call.report = <<>>

-----------------------------------------------------------------------------
(* Properties of the temporal decomposition *)

IsTemporal == call.op = "calculate_temporal_contribution"

\* the rows of the call in date order, and their halves
ByDate == StableSort(call.df, LAMBDA p : p[1].date < p[2].date)
BeforeHalf == SubSeq(ByDate, 1, Len(ByDate) \div 2)
AfterHalf == SubSeq(ByDate, Len(ByDate) \div 2 + 1, Len(ByDate))

\* the KPI values of segment value v in a half, missing ones left out
ValuesIn(half, v) ==
    SelectSeq(Column(SelectSeq(half, LAMBDA r : r.seg = v), "kpi"), LAMBDA x : ~IsNaN(x))

SegmentValuesOfCall == {call.df[i].seg : i \in 1..Len(call.df)} \ {Null}

\* the mean of segment value v changes, or is the same, from the before half to
\* the after half (it has values in both)
MeanChange(v) == FSub(SeqMean(ValuesIn(AfterHalf, v)), SeqMean(ValuesIn(BeforeHalf, v)))
HasBothMeans(v) == ValuesIn(BeforeHalf, v) # <<>> /\ ValuesIn(AfterHalf, v) # <<>>
MeanChanges(v) == HasBothMeans(v) /\ ~IsZero(MeanChange(v))
MeanStays(v) == HasBothMeans(v) /\ IsZero(MeanChange(v))
OnlyMeanThatChanges(v) ==
    MeanChanges(v) /\ \A w \in SegmentValuesOfCall \ {v} : MeanStays(w)

\* the overall KPI delta: after-half mean minus before-half mean
OverallDelta ==
    FSub(SkipNaMean(Column(AfterHalf, "kpi")), SkipNaMean(Column(BeforeHalf, "kpi")))

DriversOf(v) == {i \in 1..Len(call.drivers) : call.drivers[i].segment_value = v}

SignsFollowDelta(v) ==
    \A i \in DriversOf(v) :
       /\ Sign(call.drivers[i].contribution_abs) = Sign(OverallDelta)
       /\ Sign(call.drivers[i].contribution_pct) = Sign(OverallDelta)

\* C16 as stated: when exactly one segment value's KPI mean changes between the
\* halves and every other one's stays, that segment value's contribution_abs and
\* contribution_pct have the sign of the overall KPI delta
C16_OnlyChangedSegmentHasSignOfDelta ==
    IsTemporal => \A v \in SegmentValuesOfCall : OnlyMeanThatChanges(v) => SignsFollowDelta(v)

\* every row has a KPI value and a segment value, and each segment value has as
\* many rows in the before half as in the after half
MixStays ==
    /\ \A i \in 1..Len(call.df) : ~IsNaN(call.df[i].kpi) /\ call.df[i].seg # Null
    /\ \A w \in SegmentValuesOfCall : Len(ValuesIn(BeforeHalf, w)) = Len(ValuesIn(AfterHalf, w))

\* the change of the mean, weighted by the segment value's share of the rows, is
\* at least a millionth in size
WeightedChange(v) ==
    FMul(MeanChange(v),
         Num(Len(ValuesIn(BeforeHalf, v)) + Len(ValuesIn(AfterHalf, v)), 2 * Len(call.df)))
NotTiny(v) == FGe(FAbs(WeightedChange(v)), Num(1, 1000000))

\* C16, amended: when moreover the mix of segment values is the same in both
\* halves and the weighted change is at least a millionth, the segment value has
\* a driver, and its contribution_abs and contribution_pct have the sign of the
\* overall KPI delta
C16_OnlyChangedSegmentOfSameMixHasSignOfDelta ==
    IsTemporal =>
       \A v \in SegmentValuesOfCall :
          (OnlyMeanThatChanges(v) /\ MixStays /\ NotTiny(v))
             => DriversOf(v) # {} /\ SignsFollowDelta(v)

\* rows that come in reverse date order, the mean of A falling while B stays, in
\* the same mix: the contributions of A are negative, as the delta is
C16_Witness ==
    /\ IsTemporal
    /\ call.df[1].date > call.df[2].date
    /\ "B" \in SegmentValuesOfCall
    /\ OnlyMeanThatChanges("A") /\ MixStays /\ NotTiny("A")
    /\ Sign(OverallDelta) = -1
    /\ \E i \in DriversOf("A") : Sign(call.drivers[i].contribution_abs) = -1
                                 /\ Sign(call.drivers[i].contribution_pct) = -1

-----------------------------------------------------------------------------
(* Properties of the caller's dataset *)

IsSession == call.op = "session"

\* C17: after any sequence of calls of profile_data, detect_kpis, analyze_trends,
\* detect_change_points, analyze_experiment, detect_peeking_risk,
\* analyze_segment_drivers and find_anomalous_segments the caller's dataset has the
\* columns, the row order and the values it had before
C17_CoreNeverChangesTheDataset ==
    IsSession => /\ call.df.columns = call.original.columns
                 /\ call.df.rows = call.original.rows

\* a dataset whose rows are not in date order, after analyze_trends and
\* analyze_segment_drivers sorted it by date and detect_peeking_risk set the
\* weekday column
C17_Witness ==
    /\ IsSession
    /\ call.ops = <<"analyze_trends", "analyze_segment_drivers", "detect_peeking_risk">>
    /\ \E i \in 1..(Len(call.original.rows) - 1) :
          call.original.rows[i].date > call.original.rows[i + 1].date
    /\ call.ret # <<>>
    /\ call.df = call.original

-----------------------------------------------------------------------------
(* Properties of the decisions of a report *)

\* a call of analyze_csv that returned a report with experiment results
HasExperimentResults ==
    IsCsv /\ call.report # <<>> /\ call.report[1].experiment_results # <<>>

\* the decisions of the report that are about the experiment
ExperimentTexts ==
    {<<"Ship the experiment">>, <<"Don't ship the experiment">>,
     <<"Continue running experiment or iterate">>}

DecisionsOnExperiment ==
    SelectSeq(call.report[1].recommended_decisions,
              LAMBDA d : d.decision \in ExperimentTexts)

\* C18: when the report has an experiment result there is exactly one decision on
\* the experiment, taken from the first result: "Ship the experiment" if and only
\* if it is significant with positive uplift, "Don't ship the experiment" if and
\* only if it is significant with negative uplift, and "Continue running
\* experiment or iterate" in every other case
C18_DecisionFollowsSignOfUplift ==
    HasExperimentResults =>
        /\ Len(DecisionsOnExperiment) = 1
        /\ LET primary_exp == call.report[1].experiment_results[1]
               decision == DecisionsOnExperiment[1].decision
               positive == primary_exp.significant /\ FGt(primary_exp.uplift_pct, Zero)
               negative == primary_exp.significant /\ FLt(primary_exp.uplift_pct, Zero)
           IN /\ decision = <<"Ship the experiment">> <=> positive
              /\ decision = <<"Don't ship the experiment">> <=> negative
              /\ decision = <<"Continue running experiment or iterate">>
                    <=> ~positive /\ ~negative

\* the trends of the report generate_decisions looks at for a decline
DecliningTrends ==
    SelectSeq(call.report.overall_trends,
              LAMBDA t : t.direction = "decreasing" /\ FLt(t.recent_change_pct, Int2F(-10)))

\* the KPIs the decisions "Investigate decline in ..." name
InvestigatedKpis ==
    {call.decisions[i].decision[2] :
        i \in {j \in 1..Len(call.decisions) :
                  call.decisions[j].decision[1] = "Investigate decline in"}}

\* C19: when several trends are decreasing with a recent change below -10%, the
\* one decision "Investigate decline in <KPI>" names the KPI whose recent change
\* is the most negative of them, wherever it stands in the report
C19_InvestigatesTheSteepestDecline ==
    IsDec /\ Len(DecliningTrends) > 1 =>
        \E t \in Range(DecliningTrends) :
           /\ InvestigatedKpis = {t.kpi}
           /\ \A u \in Range(DecliningTrends) :
                 FLe(t.recent_change_pct, u.recent_change_pct)

-----------------------------------------------------------------------------
(* Properties of detect_change_points_simple *)

Returned == call.op = "detect_change_points_simple" /\ call.pc = "returned"

\* the positions of the loop's range that pass the test: a before-window of
\* non-zero deviation and a z-score above 2
QualifyingIndices ==
    {j \in call.min_size..(Len(call.values) - call.min_size - 1) :
        ShiftDetectedAt(call.values, call.min_size, j)}

ReturnedIndices == Range(call.change_points)

\* C21: the returned indices are strictly increasing, each in [M, n-M), two
\* consecutive ones at least M apart; the first is the smallest qualifying index;
\* and every qualifying index that is not returned lies fewer than M positions
\* after a returned one
C21_EarliestWinsSuppression ==
    Returned =>
        LET cps == call.change_points
            M == call.min_size
            n == Len(call.values)
        IN /\ \A k \in 1..Len(cps) : M <= cps[k] /\ cps[k] < n - M
           /\ \A k \in 1..(Len(cps) - 1) : cps[k + 1] - cps[k] >= M
           /\ QualifyingIndices # {} =>
                 /\ cps # <<>>
                 /\ cps[1] \in QualifyingIndices
                 /\ \A j \in QualifyingIndices : cps[1] <= j
           /\ QualifyingIndices = {} => cps = <<>>
           /\ \A j \in QualifyingIndices \ ReturnedIndices :
                 \E r \in ReturnedIndices : 0 < j - r /\ j - r < M

\* a scan that returns two indices and suppresses a qualifying one between them
C21_Witness ==
    /\ Returned
    /\ Len(call.change_points) >= 2
    /\ \E j \in QualifyingIndices \ ReturnedIndices :
          call.change_points[1] < j /\ j < call.change_points[2]
    /\ call.change_points = detect_change_points_simple(call.values, call.min_size)

-----------------------------------------------------------------------------
(* Properties of the hypothesis generators *)

IsSegHyp == call.op = "generate_segment_hypotheses"

\* the drivers of the call for KPI kpi whose contribution_pct is positive (sign
\* 1) or negative (sign -1)
DriversOnSide(kpi, sign) ==
    {d \in Range(call.segment_drivers) :
        /\ d.kpi = kpi
        /\ IF sign = 1 THEN FGt(d.contribution_pct, Zero) ELSE FLt(d.contribution_pct, Zero)}

\* d is a strongest driver of its KPI on its side
StrongestOnSide(d, kpi, sign) ==
    /\ d \in DriversOnSide(kpi, sign)
    /\ \A e \in DriversOnSide(kpi, sign) : FGe(FAbs(d.contribution_pct), FAbs(e.contribution_pct))

\* a hypothesis of the call is about driver d of KPI kpi
HypothesisOn(kpi, d) ==
    \E i \in 1..Len(call.hypotheses) :
       /\ call.hypotheses[i].related_kpis = <<kpi>>
       /\ call.hypotheses[i].related_segments = <<SegmentName(d)>>
       /\ call.hypotheses[i].confidence
             = IF FGt(FAbs(d.contribution_pct), Int2F(30)) THEN "high" ELSE "medium"

\* C22: for every KPI with a driver of positive contribution_pct there is a
\* hypothesis on that KPI's strongest positive contributor, and for every KPI
\* with a negative driver one on its strongest negative contributor, of
\* confidence "high" if |contribution_pct| > 30 and "medium" otherwise
C22_StrongestContributorsOfEveryKpi ==
    IsSegHyp =>
        \A kpi \in {d.kpi : d \in Range(call.segment_drivers)}, sign \in {1, -1} :
           DriversOnSide(kpi, sign) # {} =>
              \E d \in DriversOnSide(kpi, sign) :
                 StrongestOnSide(d, kpi, sign) /\ HypothesisOn(kpi, d)

IsAnomalyHyp == call.op = "generate_anomaly_hypotheses"

\* the first three anomalies of type "data_quality" of the call's list, in list order
FirstThreeDataQuality ==
    Prefix(SelectSeq(call.anomalies, LAMBDA a : a.type = "data_quality"), 3)

\* C23: generate_anomaly_hypotheses emits one hypothesis of confidence "high" for
\* each of the first three anomalies of type "data_quality", in list order,
\* however many anomalies of other types stand before them
C23_FirstThreeDataQualityAnomalies ==
    IsAnomalyHyp =>
        /\ Len(call.hypotheses) = Len(FirstThreeDataQuality)
        /\ \A i \in 1..Len(call.hypotheses) :
              /\ call.hypotheses[i].confidence = "high"
              /\ call.hypotheses[i].description
                    = <<"Data quality issue detected", FirstThreeDataQuality[i].description>>

-----------------------------------------------------------------------------
(* Properties of the temporal split *)

\* C24: the split of the temporal decomposition is by date: every row of the
\* before half has a date no later than every row of the after half, and the
\* rows of one date are all in the same half
C24_SplitIsByDate ==
    IsTemporal =>
        \A b \in Range(call.before_df), a \in Range(call.after_df) :
           b.date <= a.date /\ b.date # a.date

-----------------------------------------------------------------------------
(* Properties of bootstrap_ci *)

\* The (control, test variant) pairs of the call with observations in both arms
ObservedPairs ==
    LET cv == identify_control_variant(call.variants)
    IN {tv \in DOMAIN call.stats :
           BagCount(call.arms[cv]) > 0 /\ BagCount(call.arms[tv]) > 0}

\* C25: bootstrap_ci returns a defined interval (two numbers, lower <= upper) for
\* every non-empty control and test sample, a control sample of zeros included,
\* and analyze_experiment then emits a result for each such (KPI, variant) pair
\* without raising.
C25_BootstrapIntervalAlwaysDefined ==
    (call.op = "analyze_experiment" /\ Len(call.variants) >= 2) =>
        /\ \A tv \in ObservedPairs :
              LET ci == call.stats[tv].ci
              IN /\ ~ci.raised
                 /\ IsNum(ci.lower) /\ IsNum(ci.upper)
                 /\ FLe(ci.lower, ci.upper)
        /\ ~call.raised
        /\ Len(call.results) = Cardinality(ObservedPairs)

-----------------------------------------------------------------------------
(* Properties of the sign of the uplift *)

\* the report recommends to ship the experiment
ShipsTheExperiment ==
    \E i \in 1..Len(call.report[1].recommended_decisions) :
        call.report[1].recommended_decisions[i].decision = <<"Ship the experiment">>

\* C26: when the report's decision is "Ship the experiment" the test arm's mean is
\* greater than the control arm's mean (uplift_abs > 0), and uplift_pct and
\* uplift_abs of a result with non-zero control mean never have opposite signs.
C26_ShipOnlyWhenTestBeatsControl ==
    HasExperimentResults =>
        /\ ShipsTheExperiment =>
              LET primary_exp == call.report[1].experiment_results[1]
              IN /\ FGt(primary_exp.test_mean, primary_exp.control_mean)
                 /\ FGt(primary_exp.uplift_abs, Zero)
        /\ \A i \in 1..Len(call.report[1].experiment_results) :
              LET r == call.report[1].experiment_results[i]
              IN ~IsZero(r.control_mean) =>
                    /\ ~(FGt(r.uplift_pct, Zero) /\ FLt(r.uplift_abs, Zero))
                    /\ ~(FLt(r.uplift_pct, Zero) /\ FGt(r.uplift_abs, Zero))

-----------------------------------------------------------------------------
(* Properties of the two experiment detectors *)

\* the report says the data contains an experiment
ModeSaysExperiment == call.report[1].data_profile.data_mode \in {"experiment", "both"}

\* analyze_csv found a column to run the experiment analysis on (cli.py line 84)
RunsExperimentAnalysis == detect_experiment_column(FrameOf(call.dataset)) # NoneOf

\* C27: the two experiment detectors agree on every dataset: the reported data
\* mode is "experiment" or "both" if and only if detect_experiment_column returns
\* a column, so analyze_csv runs the experiment analysis exactly when the data
\* mode says the data contains an experiment.
C27_DetectorsAgree ==
    (IsCsv /\ call.report # <<>>) => (ModeSaysExperiment <=> RunsExperimentAnalysis)

-----------------------------------------------------------------------------
(* Properties of the static decomposition *)

IsStatic == call.op = "calculate_static_contribution"

\* the dataset of the call has no missing value in the segment or the KPI column
NothingMissing ==
    \A i \in 1..Len(call.df) :
        call.df[i][call.segment_col] # Null /\ ~IsNaN(call.df[i][call.kpi])

-----------------------------------------------------------------------------
(* Properties of the anomalies of a report *)

\* the values of Anomaly.type and Anomaly.severity, schemas.py lines 78-79
AnomalyTypes == {"data_quality", "outlier", "suspicious_change", "schema_shift"}
AnomalySeverities == {"high", "medium", "low"}

\* C29: in every report assembled by analyze_csv each anomaly's type is one of
\* data_quality, outlier, suspicious_change, schema_shift and its severity one of
\* high, medium, low; the anomaly made from a high-missingness or validation
\* quality issue has the type "data_quality" that generate_anomaly_hypotheses
\* looks for.
C29_AnomalyTypesAreSchemaValues ==
    (IsCsv /\ call.report # <<>>) =>
        \A i \in 1..Len(call.report[1].anomalies) :
            LET anomaly == call.report[1].anomalies[i]
            IN /\ anomaly.type \in AnomalyTypes
               /\ anomaly.severity \in AnomalySeverities
               /\ anomaly.type = "data_quality"

-----------------------------------------------------------------------------
(* Properties of the list generate_hypotheses returns *)

\* the returned list has at most ten hypotheses, high before medium before low
AtMostTenByConfidence ==
    /\ Len(call.hypotheses) <= 10
    /\ \A i \in 1..Len(call.hypotheses) - 1 :
          confidence_order(call.hypotheses[i].confidence)
             <= confidence_order(call.hypotheses[i + 1].confidence)

\* C30, as stated: whichever path produces it, the list generate_hypotheses returns
\* has at most 10 hypotheses and is ordered by confidence.
C30_OrderedOnEveryPath == (IsHyp /\ ~call.raised) => AtMostTenByConfidence

\* C30: the list generate_hypotheses returns has at most 10 hypotheses and is
\* ordered by confidence when the rule-based path produces it; when the
\* enhancement provider produces it, it is the provider's list as it came,
\* neither sorted nor cut.
C30_OrderedOnRuleBasedPath ==
    (IsHyp /\ ~call.raised) =>
        IF call.llm = "enhanced" THEN call.hypotheses = LlmHypotheses
        ELSE AtMostTenByConfidence

\* C30 witness: a call that returns the provider's list, in which a hypothesis of
\* medium confidence stands before one of high confidence
C30_Witness ==
    /\ IsHyp /\ ~call.raised /\ call.llm = "enhanced"
    /\ \E i, j \in 1..Len(call.hypotheses) :
          /\ i < j
          /\ call.hypotheses[i].confidence = "medium"
          /\ call.hypotheses[j].confidence = "high"

=============================================================================
